---- MODULE Spec2Model ----
(***************************************************************************)
(* Flat-buffer octree of the spatial engine (packages/core): the node      *)
(* pool, the AABB pool, Octree.insert / update / remove with subdivision,  *)
(* and the queryBox / raycast traversals.                                  *)
(*                                                                         *)
(* Coordinates are small even integers (all of them exact 32-bit floats);  *)
(* the world bounds and the node capacity are chosen so that every         *)
(* midpoint the model computes is an integer as well (see MidpointsExact). *)
(***************************************************************************)
EXTENDS Integers, Sequences, FiniteSets, TLC

\* ------------------------------------------------------------------ bounds
\* Capacity given to the OctreeNodePool constructor.
NodeCapacity == 17
\* Capacity given to the AABBPool constructor: the number of objects a run allocates.
ObjectCapacity == 9
\* Number of update() calls explored in one run.
MaxUpdates == 1
\* Number of remove() calls explored in one run.
MaxRemoves == 1

\* raycast() and queryBox() calls made in a run of the query calls.
MaxQueries == 2

\* --------------------------------------------------------------- constants
MAX_OBJECTS_PER_NODE == 8
\* Capacity given to the AABBPool constructor when the pool is exercised on its own.
PoolCapacity == 3
\* Bump allocations made at most between two resets of that pool.
MaxBump == 4

\* A box is <<minX, minY, minZ, maxX, maxY, maxZ>>.
ZeroBox == <<0, 0, 0, 0, 0, 0>>
\* Arguments of Octree.setBounds.
WorldBounds == <<-16, -16, -16, 16, 16, 16>>

\* Inputs: boxes handed to AABBPool.set / Octree.update.
\* BoxA lies inside the (+,+,+) octant, BoxS straddles the three midplanes of the
\* world, ZeroBox is the record of a slot that was never written (it lies in the
\* (-,-,-) octant, touching the midplanes), BoxO sticks out of the world bounds.
BoxA == <<4, 4, 4, 6, 6, 6>>
BoxS == <<-2, -2, -2, 2, 2, 2>>
BoxO == <<14, 14, 14, 18, 18, 18>>
BoxT == <<-4, -4, -4, 4, 4, 4>>
Boxes == {BoxA, BoxS, ZeroBox, BoxO}
\* Boxes of freshly made objects.
InsertBoxes == {BoxS, ZeroBox}

Objects == 0 .. (ObjectCapacity - 1)

\* The boxes of the objects that are inserted in two orders: two boxes that straddle
\* the centre of the world and one that fits an octant at every depth.
OrderBoxes == {BoxS, BoxT, ZeroBox}

\* The second insertion orders: the reverse of the index order, and the index order
\* started at object 1.
Orders ==
    { [i \in 1 .. ObjectCapacity |-> ObjectCapacity - i],
      [i \in 1 .. ObjectCapacity |-> i % ObjectCapacity] }

VARIABLES
    nodes,          \* OctreeNodePool.buffer, one record per node slot
    nodeCount,      \* OctreeNodePool.count
    aabbs,          \* AABBPool.buffer, one box per slot
    aabbCount,      \* AABBPool.count
    objectNodeMap,  \* Octree.objectNodeMap
    lastCall,       \* the call just made, its arguments, how it ended, and whether
                    \* its object was in objectNodeMap when it was made
    inserted,       \* objects handed to insert() and not since handed to remove()
    stayed,         \* objects whose latest update() returned at the "still fits" test
    nUpdates,       \* update() calls made so far
    nRemoves,       \* remove() calls made so far
    nClears,        \* clear() calls made so far
    nResets,        \* per-frame resets of both pools made so far
    nodes2,         \* OctreeNodePool.buffer of a second Octree over the same AABBPool
    nodeCount2,     \* OctreeNodePool.count of the second Octree
    objectNodeMap2, \* Octree.objectNodeMap of the second Octree
    order,          \* the order in which the second Octree receives the objects
    pos,            \* how many objects each of the two Octrees has received
    freeList,       \* AABBPool.freeList: ObjectPool.freeList[0 .. top - 1]
    liveIdx,        \* indices that allocate() returned and no release() or reset() took back
    released,       \* indices that release() accepted and allocate() has not handed out again
    initialised,    \* createLidarProcessor: octree, aabbPool, raysBuf, resultsBuf are not null
    insertedObjectCount, \* createLidarProcessor.insertedObjectCount
    totalRayCount,  \* createLidarProcessor.totalRayCount
    raysBuf,        \* the shared ray buffer, one ray per slot
    resultsBuf,     \* the shared results buffer, one [index, t] per ray
    inbox,          \* messages posted to the worker and not yet handled, oldest first
    outbox,         \* messages posted by the worker and not yet received, oldest first
    lastError,      \* the error the latest init or sweep left by, "none" if it returned
    producer,       \* the main thread: what it has sent, written and read
    octreeStack,    \* Octree._stack
    queryResult,    \* what the latest raycast() and queryBox() returned, how many
                    \* calls were made, whether the latest repeated the one before
    probe           \* the latest rayIntersectsAABB call: its ray, its box, its result

orderVars == <<nodes2, nodeCount2, objectNodeMap2, order, pos>>

poolVars == <<freeList, released>>

treeVars == <<nodes, nodeCount, aabbs, objectNodeMap, inserted, stayed, nUpdates, nRemoves,
             nClears, nResets>>

lidarVars == <<initialised, insertedObjectCount, totalRayCount, raysBuf, resultsBuf,
               inbox, outbox, lastError, producer>>

queryVars == <<octreeStack, queryResult, probe>>

vars == <<nodes, nodeCount, aabbs, aabbCount, objectNodeMap, lastCall, inserted, stayed,
          nUpdates, nRemoves, nClears, nResets,
          nodes2, nodeCount2, objectNodeMap2, order, pos,
          freeList, liveIdx, released, initialised, insertedObjectCount, totalRayCount,
          raysBuf, resultsBuf, inbox, outbox, lastError, producer,
          octreeStack, queryResult, probe>>

root == 0

\* ---------------------------------------------------------------- node pool
NodeInRange(n) == n >= 0 /\ n < NodeCapacity

\* A Float32Array starts zeroed.
ZeroNode == [aabb |-> ZeroBox, firstChild |-> 0, parent |-> 0, objs |-> <<>>]

getFirstChild(ns, n) == IF NodeInRange(n) THEN ns[n].firstChild ELSE -1
getParent(ns, n) == IF NodeInRange(n) THEN ns[n].parent ELSE -1
getObjectCount(ns, n) == IF NodeInRange(n) THEN Len(ns[n].objs) ELSE 0
getObjects(ns, n) == IF NodeInRange(n) THEN ns[n].objs ELSE <<>>
getAABB(ns, n) == IF NodeInRange(n) THEN ns[n].aabb ELSE ZeroBox

setAABB(ns, n, box) == IF NodeInRange(n) THEN [ns EXCEPT ![n].aabb = box] ELSE ns
setFirstChild(ns, n, c) == IF NodeInRange(n) THEN [ns EXCEPT ![n].firstChild = c] ELSE ns
setParent(ns, n, p) == IF NodeInRange(n) THEN [ns EXCEPT ![n].parent = p] ELSE ns
clearObjects(ns, n) == IF NodeInRange(n) THEN [ns EXCEPT ![n].objs = <<>>] ELSE ns

\* Variant of allocate that hands the slot out as it was left.
allocateKeepsRecord(ns, n) == ns

\* OctreeNodePool.allocate: the sentinels are written, the AABB is left as it was.
allocate(ns, n) ==
    IF NodeInRange(n)
    THEN [ns EXCEPT ![n].firstChild = -1, ![n].parent = -1, ![n].objs = <<>>]
    ELSE ns

\* Variant of addObjectThrows without the capacity test.
addObjectNeverThrows(ns, n) == FALSE

\* Variant of addObjectThrows that lets one more object in.
addObjectThrowsLate(ns, n) == getObjectCount(ns, n) > MAX_OBJECTS_PER_NODE

addObjectThrows(ns, n) == getObjectCount(ns, n) >= MAX_OBJECTS_PER_NODE

addObject(ns, n, o) ==
    IF NodeInRange(n) THEN [ns EXCEPT ![n].objs = Append(@, o)] ELSE ns

RECURSIVE IndexOf(_, _, _)
IndexOf(s, o, i) ==
    IF i > Len(s) THEN 0
    ELSE IF s[i] = o THEN i
    ELSE IndexOf(s, o, i + 1)

\* OctreeNodePool.removeObject: the first match is overwritten by the last entry.
removeObject(ns, n, o) ==
    LET s == getObjects(ns, n)
        i == IndexOf(s, o, 1)
    IN  IF i = 0 THEN ns
        ELSE [ns EXCEPT ![n].objs =
                 [k \in 1 .. (Len(s) - 1) |-> IF k = i THEN s[Len(s)] ELSE s[k]]]

\* ------------------------------------------------------------------- octree
\* Variant of fitsBox that lets the object's maximum corner stick out by 2.
fitsBoxLoose(b, nb) ==
    /\ b[1] >= nb[1]
    /\ b[2] >= nb[2]
    /\ b[3] >= nb[3]
    /\ b[4] <= nb[4] + 2
    /\ b[5] <= nb[5] + 2
    /\ b[6] <= nb[6] + 2

fitsBox(b, nb) ==
    /\ b[1] >= nb[1]
    /\ b[2] >= nb[2]
    /\ b[3] >= nb[3]
    /\ b[4] <= nb[4]
    /\ b[5] <= nb[5]
    /\ b[6] <= nb[6]

fitsInNode(ap, ns, o, n) == fitsBox(ap[o], getAABB(ns, n))

MapSet(m, o, n) == [x \in (DOMAIN m) \cup {o} |-> IF x = o THEN n ELSE m[x]]
MapDelete(m, o) == [x \in (DOMAIN m) \ {o} |-> m[x]]

Mid(a, b) == (a + b) \div 2

\* Octant i of box nb: bit 0 selects the X half, bit 1 the Y half, bit 2 the Z half.
ChildBox(nb, i) ==
    LET midX == Mid(nb[1], nb[4])
        midY == Mid(nb[2], nb[5])
        midZ == Mid(nb[3], nb[6])
        bx == i % 2
        by == (i \div 2) % 2
        bz == (i \div 4) % 2
    IN  << IF bx = 0 THEN nb[1] ELSE midX,
           IF by = 0 THEN nb[2] ELSE midY,
           IF bz = 0 THEN nb[3] ELSE midZ,
           IF bx = 0 THEN midX ELSE nb[4],
           IF by = 0 THEN midY ELSE nb[5],
           IF bz = 0 THEN midZ ELSE nb[6] >>

RECURSIVE AllocateChildren(_, _, _)
AllocateChildren(ns, first, i) ==
    IF i = 8 THEN ns ELSE AllocateChildren(allocate(ns, first + i), first, i + 1)

RECURSIVE AssignChildren(_, _, _, _, _)
AssignChildren(ns, n, nb, first, i) ==
    IF i = 8 THEN ns
    ELSE AssignChildren(setParent(setAABB(ns, first + i, ChildBox(nb, i)), first + i, n),
                        n, nb, first, i + 1)

\* Variant of FirstFittingChild that never tries the last octant.
FirstFittingChildSkipsLast(ap, ns, o, first, i) ==
    LET fitting == {c \in i .. 6 : fitsInNode(ap, ns, o, first + c)}
    IN  IF fitting = {} THEN 8 ELSE CHOOSE c \in fitting : \A d \in fitting : c <= d

\* The first child octant, in index order, that contains the object; 8 if none does.
RECURSIVE FirstFittingChild(_, _, _, _, _)
FirstFittingChild(ap, ns, o, first, i) ==
    IF i = 8 THEN 8
    ELSE IF fitsInNode(ap, ns, o, first + i) THEN i
    ELSE FirstFittingChild(ap, ns, o, first, i + 1)

\* A tree state is [nodes, count, map, thrown]; thrown tells that the call left by
\* a RangeError (the capacity error of addObject, or the engine's call stack
\* overflow), with the writes made before the throw kept. The catch of the leaf path
\* swallows either.
RECURSIVE insertIntoNode(_, _, _, _)
RECURSIVE subdivide(_, _, _)
RECURSIVE Redistribute(_, _, _, _, _)

\* The descent of insertIntoNode from node n through internal nodes, each time into
\* the first child that contains the object, comes back to a node of seen: it
\* changes nothing on its way, so it never ends.
RECURSIVE DescentRevisits(_, _, _, _, _)
DescentRevisits(ns, ap, n, o, seen) ==
    IF n \in seen THEN TRUE
    ELSE IF getFirstChild(ns, n) = -1 THEN FALSE
    ELSE IF FirstFittingChild(ap, ns, o, getFirstChild(ns, n), 0) = 8 THEN FALSE
    ELSE DescentRevisits(ns, ap,
                         getFirstChild(ns, n)
                             + FirstFittingChild(ap, ns, o, getFirstChild(ns, n), 0),
                         o, seen \cup {n})

\* insertIntoNode(n, o) recurses without end, through a node that is its own
\* descendant (a node pool reset under a tree in use hands out nodes the tree still
\* links), until the engine raises RangeError: Maximum call stack size exceeded.
stackOverflows(ns, ap, n, o) == DescentRevisits(ns, ap, n, o, {})

\* Variant of insertIntoNode that subdivides a leaf one object early.
insertIntoNodeSubdividesEarly(T, ap, n, o) ==
    LET firstChild == getFirstChild(T.nodes, n)
        store ==
            IF addObjectThrows(T.nodes, n)
            THEN [T EXCEPT !.thrown = TRUE]
            ELSE [T EXCEPT !.nodes = addObject(T.nodes, n, o),
                           !.map = MapSet(T.map, o, n)]
    IN  IF firstChild # -1
        THEN IF stackOverflows(T.nodes, ap, n, o)
             THEN [T EXCEPT !.thrown = TRUE]
             ELSE LET i == FirstFittingChild(ap, T.nodes, o, firstChild, 0)
                  IN  IF i < 8 THEN insertIntoNode(T, ap, firstChild + i, o) ELSE store
        ELSE IF getObjectCount(T.nodes, n) < MAX_OBJECTS_PER_NODE - 1
        THEN store
        ELSE LET s == subdivide(T, ap, n)
             IN  IF s.thrown
                 THEN [s EXCEPT !.thrown = FALSE]
                 ELSE [insertIntoNode(s, ap, n, o) EXCEPT !.thrown = FALSE]

insertIntoNode(T, ap, n, o) ==
    LET firstChild == getFirstChild(T.nodes, n)
        store ==
            IF addObjectThrows(T.nodes, n)
            THEN [T EXCEPT !.thrown = TRUE]
            ELSE [T EXCEPT !.nodes = addObject(T.nodes, n, o),
                           !.map = MapSet(T.map, o, n)]
    IN  IF firstChild # -1
        THEN IF stackOverflows(T.nodes, ap, n, o)
             THEN [T EXCEPT !.thrown = TRUE]
             ELSE LET i == FirstFittingChild(ap, T.nodes, o, firstChild, 0)
                  IN  IF i < 8 THEN insertIntoNode(T, ap, firstChild + i, o) ELSE store
        ELSE IF getObjectCount(T.nodes, n) < MAX_OBJECTS_PER_NODE
        THEN store
        ELSE LET s == subdivide(T, ap, n)
             IN  IF s.thrown
                 THEN [s EXCEPT !.thrown = FALSE]
                 ELSE [insertIntoNode(s, ap, n, o) EXCEPT !.thrown = FALSE]

\* Variant of subdivide that advances the pool's counter by 7.
subdivideCountsSeven(T, ap, n) ==
    LET nb == getAABB(T.nodes, n)
        firstChild == T.count
        ns1 == AllocateChildren(T.nodes, firstChild, 0)
        ns2 == setFirstChild(ns1, n, firstChild)
        ns3 == AssignChildren(ns2, n, nb, firstChild, 0)
        saved == getObjects(ns3, n)
        ns4 == clearObjects(ns3, n)
    IN  Redistribute([T EXCEPT !.nodes = ns4, !.count = T.count + 7], ap, n, saved, 1)

subdivide(T, ap, n) ==
    LET nb == getAABB(T.nodes, n)
        firstChild == T.count
        ns1 == AllocateChildren(T.nodes, firstChild, 0)
        ns2 == setFirstChild(ns1, n, firstChild)
        ns3 == AssignChildren(ns2, n, nb, firstChild, 0)
        saved == getObjects(ns3, n)
        ns4 == clearObjects(ns3, n)
    IN  Redistribute([T EXCEPT !.nodes = ns4, !.count = T.count + 8], ap, n, saved, 1)

Redistribute(T, ap, n, saved, i) ==
    IF i > Len(saved) THEN T
    ELSE LET r == insertIntoNode([T EXCEPT !.map = MapDelete(T.map, saved[i])],
                                 ap, n, saved[i])
         IN  IF r.thrown THEN r ELSE Redistribute(r, ap, n, saved, i + 1)

\* Walk the parent links from n up to the lowest node that contains the object.
RECURSIVE FindAncestor(_, _, _, _)
FindAncestor(ap, ns, o, a) ==
    IF a # -1 /\ ~fitsInNode(ap, ns, o, a)
    THEN FindAncestor(ap, ns, o, getParent(ns, a))
    ELSE a

Tree == [nodes |-> nodes, count |-> nodeCount, map |-> objectNodeMap, thrown |-> FALSE]
Tree2 == [nodes |-> nodes2, count |-> nodeCount2, map |-> objectNodeMap2, thrown |-> FALSE]

\* Variant of update without the early return for bounds that still fit the node.
updateAlwaysReinserts(T, ap, o) ==
    IF o \notin DOMAIN T.map THEN T
    ELSE LET currentNode == T.map[o]
             T1 == [T EXCEPT !.nodes = removeObject(T.nodes, currentNode, o),
                             !.map = MapDelete(T.map, o)]
             a == FindAncestor(ap, T1.nodes, o, getParent(T1.nodes, currentNode))
             ancestorNode == IF a = -1 THEN root ELSE a
         IN  insertIntoNode(T1, ap, ancestorNode, o)

\* Variant of update that inserts an object it does not find in the map.
updateInsertsUnknown(T, ap, o) ==
    IF o \notin DOMAIN T.map THEN insertIntoNode(T, ap, root, o)
    ELSE LET currentNode == T.map[o]
         IN  IF fitsInNode(ap, T.nodes, o, currentNode) THEN T
             ELSE LET T1 == [T EXCEPT !.nodes = removeObject(T.nodes, currentNode, o),
                                      !.map = MapDelete(T.map, o)]
                      a == FindAncestor(ap, T1.nodes, o, getParent(T1.nodes, currentNode))
                      ancestorNode == IF a = -1 THEN root ELSE a
                  IN  insertIntoNode(T1, ap, ancestorNode, o)

update(T, ap, o) ==
    IF o \notin DOMAIN T.map THEN T
    ELSE LET currentNode == T.map[o]
         IN  IF fitsInNode(ap, T.nodes, o, currentNode) THEN T
             ELSE LET T1 == [T EXCEPT !.nodes = removeObject(T.nodes, currentNode, o),
                                      !.map = MapDelete(T.map, o)]
                      a == FindAncestor(ap, T1.nodes, o, getParent(T1.nodes, currentNode))
                      ancestorNode == IF a = -1 THEN root ELSE a
                  IN  insertIntoNode(T1, ap, ancestorNode, o)

remove(T, o) ==
    IF o \notin DOMAIN T.map THEN T
    ELSE [T EXCEPT !.nodes = removeObject(T.nodes, T.map[o], o),
                   !.map = MapDelete(T.map, o)]

\* ------------------------------------------------------------------ queries
\* IEEE-754 values that the slab test produces besides the finite ones.
PosInf == 536870912
NegInf == -536870912
NaN == 1073741824

\* A ray is <<ox, oy, oz, dx, dy, dz>> with every direction component in {-1, 0, 1}.
\* 1 / d
Reciprocal(d) == IF d = 0 THEN PosInf ELSE d

\* (a - o) * inv, for a finite difference: 0 * Infinity is NaN.
SlabT(a, o, inv) ==
    IF inv = PosInf
    THEN (IF a - o > 0 THEN PosInf ELSE IF a - o < 0 THEN NegInf ELSE NaN)
    ELSE (a - o) * inv

\* Math.min and Math.max return NaN when an argument is NaN.
MathMin(x, y) == IF x = NaN \/ y = NaN THEN NaN ELSE IF x <= y THEN x ELSE y
MathMax(x, y) == IF x = NaN \/ y = NaN THEN NaN ELSE IF x >= y THEN x ELSE y

\* x < y and x <= y on floats: false when an operand is NaN.
FLess(x, y) == x # NaN /\ y # NaN /\ x < y
FLeq(x, y) == x # NaN /\ y # NaN /\ x <= y

rayIntersectsAABB(ray, box) ==
    LET idx == Reciprocal(ray[4])
        idy == Reciprocal(ray[5])
        idz == Reciprocal(ray[6])
        t1x == SlabT(box[1], ray[1], idx)
        t2x == SlabT(box[4], ray[1], idx)
        t1y == SlabT(box[2], ray[2], idy)
        t2y == SlabT(box[5], ray[2], idy)
        t1z == SlabT(box[3], ray[3], idz)
        t2z == SlabT(box[6], ray[3], idz)
        tmin == MathMax(MathMax(MathMin(t1x, t2x), MathMin(t1y, t2y)), MathMin(t1z, t2z))
        tmax == MathMin(MathMin(MathMax(t1x, t2x), MathMax(t1y, t2y)), MathMax(t1z, t2z))
    IN  IF FLess(tmax, 0) \/ ~FLeq(tmin, tmax) THEN -1
        ELSE IF FLeq(0, tmin) THEN tmin ELSE tmax

aabbOverlapsBox(b, q) ==
    /\ b[1] <= q[4]
    /\ b[4] >= q[1]
    /\ b[2] <= q[5]
    /\ b[5] >= q[2]
    /\ b[3] <= q[6]
    /\ b[6] >= q[3]

\* The node's AABB read straight from the node buffer: a read past the end of the
\* buffer gives undefined, which compares false in queryBox and is taken as 0 by the
\* ray kernel.
NodeOverlapsBox(ns, n, q) == NodeInRange(n) /\ aabbOverlapsBox(ns[n].aabb, q)
RayHitsNode(ns, n, ray) == rayIntersectsAABB(ray, getAABB(ns, n)) >= 0

\* Variant of PushChildren that pushes the first octant whether it passes or not
\* and again when it passes.
PushChildrenFirstTwice(stack, first, i, passing) ==
    LET octants == [k \in 1 .. 8 |-> first + k - 1]
    IN  Append(stack, first) \o SelectSeq(octants, LAMBDA c : c \in passing)

\* The children in `passing` (those that pass the test) are pushed in index order.
RECURSIVE PushChildren(_, _, _, _)
PushChildren(stack, first, i, passing) ==
    IF i = 8 THEN stack
    ELSE PushChildren(IF first + i \in passing THEN Append(stack, first + i) ELSE stack,
                      first, i + 1, passing)

\* Variant of loopEnds that stops with one node left on the stack.
loopEndsEarly(st) == Len(st) <= 1

\* The traversal loops run while (this._stack.length > 0).
loopEnds(st) == Len(st) = 0

\* Variant of stackAtStart that pushes the root on whatever the stack holds.
stackAtStartKeepsStack(st) == Append(st, root)

\* this._stack.length = 0; this._stack.push(this.root): whatever the stack held is dropped.
stackAtStart(st) == Append(SubSeq(st, 1, 0), root)

RECURSIVE ScanBox(_, _, _, _, _)
ScanBox(ap, objs, i, q, results) ==
    IF i > Len(objs) THEN results
    ELSE ScanBox(ap, objs, i + 1, q,
                 IF aabbOverlapsBox(ap[objs[i]], q) THEN Append(results, objs[i])
                 ELSE results)

\* The loop of queryBox from the stack `stack`, with `results` found and the nodes
\* `popped` taken off the stack so far: the stack, the results and the pops when
\* the loop ends.
RECURSIVE QueryBoxLoop(_, _, _, _, _, _)
QueryBoxLoop(ns, ap, stack, q, results, popped) ==
    IF loopEnds(stack) THEN [stack |-> stack, found |-> results, popped |-> popped]
    ELSE LET nodeIdx == stack[Len(stack)]
             rest == SubSeq(stack, 1, Len(stack) - 1)
             found == ScanBox(ap, getObjects(ns, nodeIdx), 1, q, results)
             firstChild == getFirstChild(ns, nodeIdx)
             passing == {c \in firstChild .. (firstChild + 7) : NodeOverlapsBox(ns, c, q)}
         IN  QueryBoxLoop(ns, ap,
                          IF firstChild # -1 THEN PushChildren(rest, firstChild, 0, passing)
                          ELSE rest,
                          q, found, Append(popped, nodeIdx))

\* Octree.queryBox called when _stack holds st: the indices found, in the order the
\* traversal meets them, the _stack the call leaves, and the nodes it popped, in
\* the order it popped them. The early return leaves the stack as it found it.
queryBoxCall(ns, ap, st, q) ==
    IF ~NodeOverlapsBox(ns, root, q) THEN [stack |-> st, found |-> <<>>, popped |-> <<>>]
    ELSE QueryBoxLoop(ns, ap, stackAtStart(st), q, <<>>, <<>>)

\* Octree.queryBox: what the call returns.
queryBox(ns, ap, q) == queryBoxCall(ns, ap, <<>>, q).found

\* A closest hit so far is [t, index]; index -1 means none.
RECURSIVE ScanRay(_, _, _, _, _)
ScanRay(ap, objs, i, ray, best) ==
    IF i > Len(objs) THEN best
    ELSE LET t == rayIntersectsAABB(ray, ap[objs[i]])
         IN  ScanRay(ap, objs, i + 1, ray,
                     IF t >= 0 /\ t < best.t THEN [t |-> t, index |-> objs[i]] ELSE best)

\* The loop of raycast from the stack `stack`, with the closest hit `best` and the
\* nodes `popped` taken off the stack so far: the stack, the closest hit and the
\* pops when the loop ends.
RECURSIVE RaycastLoop(_, _, _, _, _, _)
RaycastLoop(ns, ap, stack, ray, best, popped) ==
    IF loopEnds(stack) THEN [stack |-> stack, best |-> best, popped |-> popped]
    ELSE LET nodeIdx == stack[Len(stack)]
             rest == SubSeq(stack, 1, Len(stack) - 1)
             found == ScanRay(ap, getObjects(ns, nodeIdx), 1, ray, best)
             firstChild == getFirstChild(ns, nodeIdx)
             passing == {c \in firstChild .. (firstChild + 7) : RayHitsNode(ns, c, ray)}
         IN  RaycastLoop(ns, ap,
                         IF firstChild # -1 THEN PushChildren(rest, firstChild, 0, passing)
                         ELSE rest,
                         ray, found, Append(popped, nodeIdx))

NoHit == [t |-> -1, index |-> -1]

\* Octree.raycast called when _stack holds st: [t, index] of the closest hit, or
\* NoHit for null, the _stack the call leaves, and the nodes it popped, in the order
\* it popped them. The early return leaves the stack as it found it.
raycastCall(ns, ap, st, ray) ==
    IF rayIntersectsAABB(ray, getAABB(ns, root)) < 0
    THEN [stack |-> st, hit |-> NoHit, popped |-> <<>>]
    ELSE LET run == RaycastLoop(ns, ap, stackAtStart(st), ray,
                                [t |-> PosInf, index |-> -1], <<>>)
         IN  [stack |-> run.stack,
              hit |-> IF run.best.index = -1 THEN NoHit ELSE run.best,
              popped |-> run.popped]

\* Octree.raycast: what the call returns.
raycast(ns, ap, ray) == raycastCall(ns, ap, <<>>, ray).hit

\* The earlier rayIntersectsAABB, with a branch per axis: the slab interval after
\* axis k, [tmin, tmax, miss], miss telling that the function has returned -1.
BranchingAxis(acc, ray, box, k) ==
    LET o == ray[k]
        d == ray[k + 3]
        t1 == (box[k] - o) * d
        t2 == (box[k + 3] - o) * d
    IN  IF acc.miss THEN acc
        ELSE IF d # 0
        THEN [acc EXCEPT !.tmin = MathMax(acc.tmin, MathMin(t1, t2)),
                         !.tmax = MathMin(acc.tmax, MathMax(t1, t2))]
        ELSE IF o < box[k] \/ o > box[k + 3] THEN [acc EXCEPT !.miss = TRUE]
        ELSE acc

rayIntersectsAABBBranching(ray, box) ==
    LET start == [tmin |-> NegInf, tmax |-> PosInf, miss |-> FALSE]
        x == BranchingAxis(start, ray, box, 1)
        y == BranchingAxis(x, ray, box, 2)
        z == BranchingAxis(y, ray, box, 3)
    IN  IF z.miss THEN -1
        ELSE IF z.tmax < 0 \/ z.tmin > z.tmax THEN -1
        ELSE IF z.tmin >= 0 THEN z.tmin ELSE z.tmax

\* ------------------------------------------------------------ query calls
\* No raycast and no queryBox was called yet.
NoResult == [hit |-> NoHit, found |-> << >>, calls |-> 0, repeated |-> FALSE]
NoProbe == [ray |-> <<0, 0, 0, 0, 0, 0>>, box |-> ZeroBox, t |-> -1, called |-> FALSE]

\* new Octree() leaves _stack empty; no query and no intersection test was made.
QueryNotStarted ==
    /\ octreeStack = << >>
    /\ queryResult = NoResult
    /\ probe = NoProbe

\* Inputs of rayIntersectsAABB: origins around and on the faces of ProbeBox, every
\* direction other than the zero vector with components in {-1, 0, 1}.
ProbeBox == <<0, 0, 0, 2, 2, 2>>
ProbeBoxShifted == <<1, 0, -1, 3, 2, 1>>
ProbeBoxes == {ProbeBox, ProbeBoxShifted}
ProbeCoords == {-1, 0, 1, 2, 3}
ProbeDirs == {-1, 0, 1}
ProbeRays ==
    {<<ox, oy, oz, dx, dy, dz>> :
        ox \in ProbeCoords, oy \in ProbeCoords, oz \in ProbeCoords,
        dx \in ProbeDirs, dy \in ProbeDirs, dz \in ProbeDirs} \
    {<<ox, oy, oz, 0, 0, 0>> :
        ox \in ProbeCoords, oy \in ProbeCoords, oz \in ProbeCoords}

\* Inputs of the queries.
QueryBoxes ==
    { <<-16, -16, -16, 16, 16, 16>>,
      <<3, 3, 3, 5, 5, 5>>,
      <<-5, -5, -5, -1, -1, -1>>,
      <<17, 17, 17, 19, 19, 19>> }

Rays ==
    { <<-20, 5, 5, 1, 0, 0>>,
      <<-20, 1, 1, 1, 0, 0>>,
      <<-20, -20, -20, 1, 1, 1>>,
      <<17, 17, 30, 0, 0, -1>> }

\* ------------------------------------------------------------ LiDAR sweep
\* The integers up to this one are float32 values; beyond it the spacing doubles
\* with every doubling of the magnitude.
Float32Exact == 16777216

RECURSIVE Ulp(_)
Ulp(a) == IF a < Float32Exact THEN 1 ELSE 2 * Ulp(a \div 2)

\* A store of x into a Float32Array: the nearest float32, ties to the even
\* mantissa.
Fround(x) ==
    IF x \in {PosInf, NegInf, NaN} THEN x
    ELSE LET a == IF x < 0 THEN -x ELSE x
             u == Ulp(a)
             q == a \div u
             rem == a - q * u
             up == 2 * rem > u \/ (2 * rem = u /\ q % 2 = 1)
             m == IF up THEN (q + 1) * u ELSE q * u
         IN  IF x < 0 THEN -m ELSE m

\* Rays and results per sweep.
LidarRayCount == 2

BoxFar == <<16777216, -1, -1, 16777218, 1, 1>>
RayFar == <<-1, 0, 0, 1, 0, 0>>
RayA == <<-20, 5, 5, 1, 0, 0>>

\* What the producer writes and asks for.
LidarBoxes == {BoxA, BoxFar}
LidarSlots == {0, 1}
LidarRays == {RayA, RayFar}
LidarCounts == {1, 2, ObjectCapacity}

MaxWrites == 3
MaxSweeps == 2

\* A SharedArrayBuffer starts zeroed.
ZeroRays == [r \in 1 .. LidarRayCount |-> ZeroBox]
ZeroResults == [r \in 1 .. LidarRayCount |-> [index |-> 0, t |-> 0]]

NewProducer ==
    [initSent |-> FALSE, outstanding |-> 0, sweeps |-> 0, writes |-> 0,
     sentAabbs |-> << >>, sentRays |-> << >>, read |-> << >>]

\* createLidarProcessor() has run and no message has been posted.
LidarNotStarted ==
    /\ initialised = FALSE
    /\ insertedObjectCount = 0
    /\ totalRayCount = 0
    /\ raysBuf = ZeroRays
    /\ resultsBuf = ZeroResults
    /\ inbox = << >>
    /\ outbox = << >>
    /\ lastError = "none"
    /\ producer = NewProducer

\* The insert-or-update loop of sweep from object i on: the tree it leaves and the
\* new insertedObjectCount; a RangeError from update or insert ends it.
RECURSIVE SweepObjects(_, _, _, _, _)
RECURSIVE SweepNext(_, _, _, _, _)
SweepObjects(T, ap, i, objectCount, ins) ==
    IF i >= objectCount THEN [tree |-> T, inserted |-> ins]
    ELSE SweepNext(IF i < ins THEN update(T, ap, i) ELSE insertIntoNode(T, ap, root, i),
                   ap, i, objectCount, ins)

\* U is the tree after object i's update or insert.
SweepNext(U, ap, i, objectCount, ins) ==
    IF U.thrown THEN [tree |-> U, inserted |-> ins]
    ELSE SweepObjects(U, ap, i + 1, objectCount, IF i < ins THEN ins ELSE ins + 1)

\* Variant of WriteHit that writes a hit's t as raycast returned it.
WriteHitUnrounded(hit) ==
    IF hit = NoHit THEN [index |-> -1, t |-> -1]
    ELSE [index |-> hit.index, t |-> hit.t]

\* What sweep stores into the Float32Array for one ray: -1, -1 for null.
WriteHit(hit) ==
    IF hit = NoHit THEN [index |-> -1, t |-> -1]
    ELSE [index |-> Fround(hit.index), t |-> Fround(hit.t)]

\* The ray loop of sweep: what it writes into the results buffer.
CastRays(ns, ap, rays, n) == [r \in 1 .. n |-> WriteHit(raycast(ns, ap, rays[r]))]

\* Variant of sweepThrows that lets every sweep through.
sweepNeverThrows(init) == FALSE

\* sweep throws 'sweep called before init'.
sweepThrows(init) == ~init

\* Variant of SweepResults that casts the rays against the tree as it was before
\* the objects were brought up to date.
SweepResultsOfOldTree(S, T, ap, rays, n) ==
    [tree |-> S.tree, inserted |-> S.inserted, results |-> CastRays(T.nodes, ap, rays, n)]

\* S is what the object loop left; the rays are cast against its tree.
SweepResults(S, T, ap, rays, n) ==
    [tree |-> S.tree, inserted |-> S.inserted,
     results |-> CastRays(S.tree.nodes, ap, rays, n)]

\* sweep on an initialised processor: the tree and insertedObjectCount it leaves
\* and, unless it threw, the results it writes.
sweep(T, ap, rays, n, objectCount, ins) ==
    SweepResults(SweepObjects(T, ap, 0, objectCount, ins), T, ap, rays, n)

\* ------------------------------------------------------------ state machine
\* The node pool after new Octree(nodePool, aabbPool) and setBounds(WorldBounds).
NewTreeNodes ==
    [n \in 0 .. (NodeCapacity - 1) |->
        IF n = root
        THEN [aabb |-> WorldBounds, firstChild |-> -1, parent |-> -1, objs |-> <<>>]
        ELSE ZeroNode]

Init ==
    /\ nodes = NewTreeNodes
    /\ nodeCount = 1
    /\ aabbs = [o \in Objects |-> ZeroBox]
    /\ aabbCount = 0
    /\ objectNodeMap = << >>
    /\ lastCall = [op |-> "new", obj |-> -1, box |-> ZeroBox, thrown |-> FALSE,
                   known |-> FALSE]
    /\ inserted = {}
    /\ stayed = {}
    /\ nUpdates = 0
    /\ nRemoves = 0
    /\ nClears = 0
    /\ nResets = 0
    /\ nodes2 = NewTreeNodes
    /\ nodeCount2 = 1
    /\ objectNodeMap2 = << >>
    /\ order = << >>
    /\ pos = 0
    /\ freeList = << >>
    /\ liveIdx = {}
    /\ released = << >>
    /\ LidarNotStarted
    /\ QueryNotStarted

Commit(T) ==
    /\ nodes' = T.nodes
    /\ nodeCount' = T.count
    /\ objectNodeMap' = T.map

\* makeAABB (AABBPool.allocate, AABBPool.set) followed by Octree.insert.
Insert(box) ==
    /\ aabbCount < ObjectCapacity
    /\ LET o == aabbCount
           ap == [aabbs EXCEPT ![o] = box]
           T == insertIntoNode(Tree, ap, root, o)
       IN  /\ aabbs' = ap
           /\ aabbCount' = aabbCount + 1
           /\ Commit(T)
           /\ lastCall' = [op |-> "insert", obj |-> o, box |-> box, thrown |-> T.thrown,
                           known |-> FALSE]
           /\ inserted' = inserted \cup {o}
           /\ liveIdx' = liveIdx \cup {o}
    /\ UNCHANGED <<stayed, nUpdates, nRemoves, nClears, nResets>>
    /\ UNCHANGED orderVars
    /\ UNCHANGED lidarVars
    /\ UNCHANGED queryVars
    /\ UNCHANGED poolVars

\* update() leaves at the "still fits" test: the object is mapped and fits its node.
StaysInPlace(ap, o) ==
    /\ o \in DOMAIN objectNodeMap
    /\ fitsInNode(ap, nodes, o, objectNodeMap[o])

Update(o, box) ==
    /\ nUpdates < MaxUpdates
    /\ o < aabbCount
    /\ LET ap == [aabbs EXCEPT ![o] = box]
           T == update(Tree, ap, o)
       IN  /\ aabbs' = ap
           /\ Commit(T)
           /\ lastCall' = [op |-> "update", obj |-> o, box |-> box, thrown |-> T.thrown,
                           known |-> o \in DOMAIN objectNodeMap]
           /\ stayed' = IF StaysInPlace(ap, o) THEN stayed \cup {o} ELSE stayed \ {o}
    /\ nUpdates' = nUpdates + 1
    /\ UNCHANGED <<aabbCount, inserted, nRemoves, nClears, nResets>>
    /\ UNCHANGED orderVars
    /\ UNCHANGED lidarVars
    /\ UNCHANGED queryVars
    /\ UNCHANGED <<freeList, liveIdx, released>>

Remove(o) ==
    /\ nRemoves < MaxRemoves
    /\ o < aabbCount
    /\ Commit(remove(Tree, o))
    /\ lastCall' = [op |-> "remove", obj |-> o, box |-> aabbs[o], thrown |-> FALSE,
                    known |-> o \in DOMAIN objectNodeMap]
    /\ inserted' = inserted \ {o}
    /\ stayed' = stayed \ {o}
    /\ nRemoves' = nRemoves + 1
    /\ UNCHANGED <<aabbs, aabbCount, nUpdates, nClears, nResets>>
    /\ UNCHANGED orderVars
    /\ UNCHANGED lidarVars
    /\ UNCHANGED queryVars
    /\ UNCHANGED <<freeList, liveIdx, released>>

Next ==
    \/ \E box \in InsertBoxes : Insert(box)
    \/ \E o \in Objects, box \in Boxes : Update(o, box)
    \/ \E o \in Objects : Remove(o)

Spec == Init /\ [][Next]_vars

\* ------------------------------------------- calls for objects not in the map
\* remove() for an object that objectNodeMap does not hold: removed before, or
\* dropped by its insert().
RemoveUnknown(o) ==
    /\ o < aabbCount
    /\ o \notin DOMAIN objectNodeMap
    /\ Commit(remove(Tree, o))
    /\ lastCall' = [op |-> "remove", obj |-> o, box |-> aabbs[o], thrown |-> FALSE,
                    known |-> FALSE]
    /\ inserted' = inserted \ {o}
    /\ stayed' = stayed \ {o}
    /\ UNCHANGED <<aabbs, aabbCount, nUpdates, nRemoves, nClears, nResets>>
    /\ UNCHANGED orderVars
    /\ UNCHANGED lidarVars
    /\ UNCHANGED queryVars
    /\ UNCHANGED <<freeList, liveIdx, released>>

\* update() for an object that objectNodeMap does not hold.
UpdateUnknown(o, box) ==
    /\ o < aabbCount
    /\ o \notin DOMAIN objectNodeMap
    /\ LET ap == [aabbs EXCEPT ![o] = box]
           T == update(Tree, ap, o)
       IN  /\ aabbs' = ap
           /\ Commit(T)
           /\ lastCall' = [op |-> "update", obj |-> o, box |-> box, thrown |-> T.thrown,
                           known |-> FALSE]
           /\ stayed' = IF StaysInPlace(ap, o) THEN stayed \cup {o} ELSE stayed \ {o}
    /\ UNCHANGED <<aabbCount, inserted, nUpdates, nRemoves, nClears, nResets>>
    /\ UNCHANGED orderVars
    /\ UNCHANGED lidarVars
    /\ UNCHANGED queryVars
    /\ UNCHANGED <<freeList, liveIdx, released>>

NextUnknown ==
    \/ \E box \in InsertBoxes : Insert(box)
    \/ \E o \in Objects : Remove(o)
    \/ \E o \in Objects : RemoveUnknown(o)
    \/ \E o \in Objects, box \in Boxes : UpdateUnknown(o, box)

SpecUnknown == Init /\ [][NextUnknown]_vars

\* ------------------------------- insert, update and remove of mapped objects
\* Every insert(); update() to any box for the two objects inserted first; remove()
\* of the first.
NextReshape ==
    \/ \E box \in InsertBoxes : Insert(box)
    \/ \E o \in {0, 1}, box \in Boxes : Update(o, box)
    \/ \E o \in {0} : Remove(o)

SpecReshape == Init /\ [][NextReshape]_vars

\* ------------------------------------------- two trees, two insertion orders
\* The objects' AABBs are all made first; then one Octree receives the objects in
\* index order and a second Octree, with the same bounds, in the order `order`.
InitOrder ==
    /\ nodes = NewTreeNodes
    /\ nodeCount = 1
    /\ aabbs \in [Objects -> OrderBoxes]
    /\ aabbCount = ObjectCapacity
    /\ objectNodeMap = << >>
    /\ lastCall = [op |-> "new", obj |-> -1, box |-> ZeroBox, thrown |-> FALSE,
                   known |-> FALSE]
    /\ inserted = {}
    /\ stayed = {}
    /\ nUpdates = 0
    /\ nRemoves = 0
    /\ nClears = 0
    /\ nResets = 0
    /\ nodes2 = NewTreeNodes
    /\ nodeCount2 = 1
    /\ objectNodeMap2 = << >>
    /\ order \in Orders
    /\ pos = 0
    /\ freeList = << >>
    /\ liveIdx = Objects
    /\ released = << >>
    /\ LidarNotStarted
    /\ QueryNotStarted

InsertInBothOrders ==
    /\ pos < Len(order)
    /\ LET o1 == pos
           o2 == order[pos + 1]
           T1 == insertIntoNode(Tree, aabbs, root, o1)
           T2 == insertIntoNode(Tree2, aabbs, root, o2)
       IN  /\ Commit(T1)
           /\ nodes2' = T2.nodes
           /\ nodeCount2' = T2.count
           /\ objectNodeMap2' = T2.map
           /\ lastCall' = [op |-> "insert", obj |-> o1, box |-> aabbs[o1],
                           thrown |-> T1.thrown, known |-> FALSE]
           /\ inserted' = inserted \cup {o1}
    /\ pos' = pos + 1
    /\ UNCHANGED <<aabbs, aabbCount, stayed, nUpdates, nRemoves, nClears, nResets, order>>
    /\ UNCHANGED <<freeList, liveIdx, released>>
    /\ UNCHANGED lidarVars
    /\ UNCHANGED queryVars

NextOrder == InsertInBothOrders

SpecOrder == InitOrder /\ [][NextOrder]_vars

\* ------------------------------------------------- the AABB pool on its own
\* ObjectPool.acquire on the free-list fl: the list left and the index taken off
\* its top, -1 standing for null.
acquireOldest(fl) ==
    IF Len(fl) = 0 THEN [free |-> fl, index |-> -1]
    ELSE [free |-> Tail(fl), index |-> Head(fl)]

acquire(fl) ==
    IF Len(fl) = 0 THEN [free |-> fl, index |-> -1]
    ELSE [free |-> SubSeq(fl, 1, Len(fl) - 1), index |-> fl[Len(fl)]]

\* ObjectPool.release throws a RangeError.
releaseThrows(fl, cap, i) == i < 0 \/ i >= cap \/ Len(fl) >= cap

\* ObjectPool.release on the free-list fl of a pool of capacity cap.
release(fl, cap, i) == IF releaseThrows(fl, cap, i) THEN fl ELSE Append(fl, i)

\* AABBPool.allocate on the pool P = [count, free]: the pool left and the index.
aabbAllocateCountsReuse(P) ==
    LET recycled == acquire(P.free)
    IN  IF recycled.index # -1
        THEN [count |-> P.count + 1, free |-> recycled.free, index |-> recycled.index]
        ELSE [count |-> P.count + 1, free |-> P.free, index |-> P.count]

aabbAllocate(P) ==
    LET recycled == acquire(P.free)
    IN  IF recycled.index # -1
        THEN [count |-> P.count, free |-> recycled.free, index |-> recycled.index]
        ELSE [count |-> P.count + 1, free |-> P.free, index |-> P.count]

\* AABBPool.release.
aabbRelease(P, cap, i) == [count |-> P.count, free |-> release(P.free, cap, i)]

\* AABBPool.reset: the bump counter is zeroed and the free-list drained.
RECURSIVE Drain(_)
Drain(fl) == IF acquire(fl).index = -1 THEN fl ELSE Drain(acquire(fl).free)

aabbReset(P) == [count |-> 0, free |-> Drain(P.free)]

\* AABBPool.size.
size(P) == P.count

Pool == [count |-> aabbCount, free |-> freeList]

PoolAllocate ==
    /\ freeList # << >> \/ aabbCount < MaxBump
    /\ LET r == aabbAllocate(Pool)
       IN  /\ aabbCount' = r.count
           /\ freeList' = r.free
           /\ lastCall' = [op |-> "allocate", obj |-> r.index, box |-> ZeroBox,
                           thrown |-> FALSE, known |-> r.index \in liveIdx]
           /\ liveIdx' = liveIdx \cup {r.index}
    /\ released' = IF released = << >> THEN released
                   ELSE SubSeq(released, 1, Len(released) - 1)
    /\ UNCHANGED treeVars
    /\ UNCHANGED orderVars
    /\ UNCHANGED lidarVars
    /\ UNCHANGED queryVars

PoolRelease(i) ==
    /\ LET thrown == releaseThrows(freeList, PoolCapacity, i)
           P == aabbRelease(Pool, PoolCapacity, i)
       IN  /\ aabbCount' = P.count
           /\ freeList' = P.free
           /\ lastCall' = [op |-> "release", obj |-> i, box |-> ZeroBox,
                           thrown |-> thrown, known |-> i \in liveIdx]
           /\ liveIdx' = IF thrown THEN liveIdx ELSE liveIdx \ {i}
           /\ released' = IF thrown THEN released ELSE Append(released, i)
    /\ UNCHANGED treeVars
    /\ UNCHANGED orderVars
    /\ UNCHANGED lidarVars
    /\ UNCHANGED queryVars

PoolReset ==
    /\ LET P == aabbReset(Pool)
       IN  /\ aabbCount' = P.count
           /\ freeList' = P.free
    /\ lastCall' = [op |-> "reset", obj |-> -1, box |-> ZeroBox, thrown |-> FALSE,
                    known |-> FALSE]
    /\ liveIdx' = {}
    /\ released' = << >>
    /\ UNCHANGED treeVars
    /\ UNCHANGED orderVars
    /\ UNCHANGED lidarVars
    /\ UNCHANGED queryVars

NextPool ==
    \/ PoolAllocate
    \/ \E i \in -1 .. PoolCapacity : PoolRelease(i)
    \/ PoolReset

SpecPool == Init /\ [][NextPool]_vars


\* ------------------------------------------------------------ Octree.clear
\* clear() calls explored, and insert() calls explored after a clear().
MaxClears == 2
MaxAfterClear == 2

\* Octree.clear: both pools are reset, objectNodeMap is emptied and the root is
\* allocated anew from the emptied node pool. P is the AABB pool [count, free].
clear(T, P) ==
    LET emptied == 0
    IN  [nodes |-> allocate(T.nodes, emptied), count |-> emptied + 1, map |-> << >>,
         thrown |-> FALSE, pool |-> aabbReset(P)]

Clear ==
    /\ nClears < MaxClears
    /\ LET T == clear(Tree, Pool)
       IN  /\ Commit(T)
           /\ aabbCount' = size(T.pool)
           /\ freeList' = T.pool.free
    /\ lastCall' = [op |-> "clear", obj |-> -1, box |-> ZeroBox, thrown |-> FALSE,
                    known |-> FALSE]
    /\ inserted' = {}
    /\ stayed' = {}
    /\ liveIdx' = {}
    /\ released' = << >>
    /\ nClears' = nClears + 1
    /\ UNCHANGED <<aabbs, nUpdates, nRemoves, nResets>>
    /\ UNCHANGED orderVars
    /\ UNCHANGED lidarVars
    /\ UNCHANGED queryVars

\* The caller fills the tree, clears it, and inserts a few objects again.
NextClear ==
    \/ \E box \in InsertBoxes :
           /\ nClears = 0 \/ aabbCount < MaxAfterClear
           /\ Insert(box)
    \/ Clear

SpecClear == Init /\ [][NextClear]_vars

\* ------------------------------------------ insert of a removed object
\* AABBPool.set followed by Octree.insert for an allocated index that the tree
\* does not hold: it was removed, or its insert was dropped.
Reinsert(o, box) ==
    /\ o < aabbCount
    /\ o \notin DOMAIN objectNodeMap
    /\ LET ap == [aabbs EXCEPT ![o] = box]
           T == insertIntoNode(Tree, ap, root, o)
       IN  /\ aabbs' = ap
           /\ Commit(T)
           /\ lastCall' = [op |-> "insert", obj |-> o, box |-> box, thrown |-> T.thrown,
                           known |-> FALSE]
           /\ inserted' = inserted \cup {o}
    /\ UNCHANGED <<aabbCount, stayed, nUpdates, nRemoves, nClears, nResets>>
    /\ UNCHANGED orderVars
    /\ UNCHANGED lidarVars
    /\ UNCHANGED queryVars
    /\ UNCHANGED <<freeList, liveIdx, released>>

NextReinsert ==
    \/ \E box \in InsertBoxes : Insert(box)
    \/ \E o \in Objects : Remove(o)
    \/ \E o \in Objects, box \in InsertBoxes : Reinsert(o, box)

SpecReinsert == Init /\ [][NextReinsert]_vars

\* ------------------------------------------- boxes on the midpoint planes
\* BoxFlat lies in the plane x = 0 and is contained in octants 6 and 7 of the
\* world; BoxLow ends at x = 0 and is contained in octant 6 alone; ZeroBox is
\* contained in all eight.
BoxFlat == <<0, 1, 1, 0, 2, 2>>
BoxLow == <<-2, 1, 1, 0, 2, 2>>
MidplaneBoxes == {ZeroBox, BoxFlat, BoxLow}

NextMidplane == \E box \in MidplaneBoxes : Insert(box)

SpecMidplane == Init /\ [][NextMidplane]_vars

\* ------------------------------------------------------- calls of queries
QueryBox(q) ==
    /\ queryResult.calls < MaxQueries
    /\ \E R \in {queryBoxCall(nodes, aabbs, octreeStack, q)} :
          /\ octreeStack' = R.stack
          /\ queryResult' = [queryResult EXCEPT
                                !.found = R.found,
                                !.calls = queryResult.calls + 1,
                                !.repeated = lastCall.op = "queryBox" /\ lastCall.box = q]
    /\ lastCall' = [op |-> "queryBox", obj |-> -1, box |-> q, thrown |-> FALSE,
                    known |-> FALSE]
    /\ UNCHANGED <<aabbCount, liveIdx, probe>>
    /\ UNCHANGED treeVars
    /\ UNCHANGED orderVars
    /\ UNCHANGED poolVars
    /\ UNCHANGED lidarVars

Raycast(ray) ==
    /\ queryResult.calls < MaxQueries
    /\ \E R \in {raycastCall(nodes, aabbs, octreeStack, ray)} :
          /\ octreeStack' = R.stack
          /\ queryResult' = [queryResult EXCEPT
                                !.hit = R.hit,
                                !.calls = queryResult.calls + 1,
                                !.repeated = lastCall.op = "raycast" /\ lastCall.box = ray]
    /\ lastCall' = [op |-> "raycast", obj |-> -1, box |-> ray, thrown |-> FALSE,
                    known |-> FALSE]
    /\ UNCHANGED <<aabbCount, liveIdx, probe>>
    /\ UNCHANGED treeVars
    /\ UNCHANGED orderVars
    /\ UNCHANGED poolVars
    /\ UNCHANGED lidarVars

\* Inserts of the box that straddles the centre, update() to any box and remove()
\* for the two objects inserted first, and the two queries, in any order.
NextQuery ==
    \/ \E box \in {BoxS} : Insert(box)
    \/ \E o \in {0, 1}, box \in Boxes : Update(o, box)
    \/ \E o \in {0, 1} : Remove(o)
    \/ \E q \in QueryBoxes : QueryBox(q)
    \/ \E ray \in Rays : Raycast(ray)

SpecQuery == Init /\ [][NextQuery]_vars

\* rayIntersectsAABB called on its own, once per run: it keeps no state.
Intersect(ray, box) ==
    /\ ~probe.called
    /\ probe' = [ray |-> ray, box |-> box, t |-> rayIntersectsAABB(ray, box),
                 called |-> TRUE]
    /\ lastCall' = [op |-> "rayIntersectsAABB", obj |-> -1, box |-> box,
                    thrown |-> FALSE, known |-> FALSE]
    /\ UNCHANGED <<aabbCount, liveIdx, octreeStack, queryResult>>
    /\ UNCHANGED treeVars
    /\ UNCHANGED orderVars
    /\ UNCHANGED poolVars
    /\ UNCHANGED lidarVars

NextRay == \E ray \in ProbeRays, box \in ProbeBoxes : Intersect(ray, box)

SpecRay == Init /\ [][NextRay]_vars

\* ------------------------------------------- writes into the AABB buffer
\* AABBPool.set: overwrites the record; nothing else is told of the change.
aabbSet(ap, i, box) == IF i \in DOMAIN ap THEN [ap EXCEPT ![i] = box] ELSE ap

\* The smallest box that contains records a and b of the buffer, by Math.min and
\* Math.max per axis; a read past the end of the buffer gives undefined, taken as 0.
UnionBox(ap, a, b) ==
    LET p == IF a \in DOMAIN ap THEN ap[a] ELSE ZeroBox
        q == IF b \in DOMAIN ap THEN ap[b] ELSE ZeroBox
    IN  [k \in 1 .. 6 |->
            IF k <= 3 THEN (IF p[k] < q[k] THEN p[k] ELSE q[k])
            ELSE (IF p[k] > q[k] THEN p[k] ELSE q[k])]

\* aabbExpand(pool, a, b): record a becomes the union of a and b, in place.
aabbExpand(ap, a, b) == aabbSet(ap, a, UnionBox(ap, a, b))

\* aabbMerge(pool, dest, a, b): record dest becomes the union of a and b.
aabbMerge(ap, dest, a, b) == aabbSet(ap, dest, UnionBox(ap, a, b))

\* A direct write into the AABB buffer: the octree is not called, so an object the
\* tree holds stays filed in the node it was in.
BufferWrite(op, i, ap) ==
    /\ aabbs' = ap
    /\ lastCall' = [op |-> op, obj |-> i, box |-> ap[i], thrown |-> FALSE,
                    known |-> i \in DOMAIN objectNodeMap]
    /\ UNCHANGED <<nodes, nodeCount, objectNodeMap, inserted, stayed, nUpdates, nRemoves,
                   nClears, nResets>>
    /\ UNCHANGED <<aabbCount, liveIdx>>
    /\ UNCHANGED orderVars
    /\ UNCHANGED poolVars
    /\ UNCHANGED lidarVars
    /\ UNCHANGED queryVars

AabbSet(i, box) == BufferWrite("set", i, aabbSet(aabbs, i, box))
AabbExpand(a, b) == BufferWrite("aabbExpand", a, aabbExpand(aabbs, a, b))
AabbMerge(dest, a, b) == BufferWrite("aabbMerge", dest, aabbMerge(aabbs, dest, a, b))

\* The direct writes are tried on allocated slots: the first, and the ninth, which
\* the insert after a subdivision files below the root.
NextBufferWrites ==
    \/ \E box \in InsertBoxes : Insert(box)
    \/ \E i \in {0, ObjectCapacity - 1}, box \in InsertBoxes :
           i < aabbCount /\ AabbSet(i, box)
    \/ \E a \in {0, ObjectCapacity - 1}, b \in {0, ObjectCapacity - 1} :
           a < aabbCount /\ b < aabbCount /\ AabbExpand(a, b)
    \/ \E dest \in {0, ObjectCapacity - 1}, a \in {0, ObjectCapacity - 1},
          b \in {0, ObjectCapacity - 1} :
           dest < aabbCount /\ a < aabbCount /\ b < aabbCount /\ AabbMerge(dest, a, b)

SpecBufferWrites == Init /\ [][NextBufferWrites]_vars

\* ------------------------------------------------------- per-frame reuse
\* Frames explored after the first, and objects allocated and inserted per frame.
MaxResets == 3
MaxFrameObjects == 3

\* OctreeNodePool.reset: the bump counter is zeroed, the buffer is left as it is.
nodeReset(T) == [T EXCEPT !.count = 0]

\* handle.reset(): nodePool.reset(); aabbPool.reset(). The Octree is not told.
FrameReset ==
    /\ nResets < MaxResets
    /\ LET T == nodeReset(Tree)
           P == aabbReset(Pool)
       IN  /\ Commit(T)
           /\ aabbCount' = size(P)
           /\ freeList' = P.free
    /\ lastCall' = [op |-> "frameReset", obj |-> -1, box |-> ZeroBox, thrown |-> FALSE,
                    known |-> FALSE]
    /\ inserted' = {}
    /\ stayed' = {}
    /\ liveIdx' = {}
    /\ released' = << >>
    /\ nResets' = nResets + 1
    /\ UNCHANGED <<aabbs, nUpdates, nRemoves, nClears>>
    /\ UNCHANGED orderVars
    /\ UNCHANGED lidarVars
    /\ UNCHANGED queryVars

NextFrame ==
    \/ \E box \in InsertBoxes :
           /\ aabbCount < MaxFrameObjects
           /\ Insert(box)
    \/ FrameReset

SpecFrame == Init /\ [][NextFrame]_vars

\* ---------------------------------------------- the index pool on its own
\* ObjectPool constructor: the free-list holds capacity-1 down to 0, so that the
\* first acquire() returns 0.
NewObjectPool(cap) == [k \in 1 .. cap |-> cap - k]

\* ObjectPool.available.
available(fl) == Len(fl)

InitObjectPool ==
    /\ nodes = NewTreeNodes
    /\ nodeCount = 1
    /\ aabbs = [o \in Objects |-> ZeroBox]
    /\ aabbCount = 0
    /\ objectNodeMap = << >>
    /\ lastCall = [op |-> "new", obj |-> -1, box |-> ZeroBox, thrown |-> FALSE,
                   known |-> FALSE]
    /\ inserted = {}
    /\ stayed = {}
    /\ nUpdates = 0
    /\ nRemoves = 0
    /\ nClears = 0
    /\ nResets = 0
    /\ nodes2 = NewTreeNodes
    /\ nodeCount2 = 1
    /\ objectNodeMap2 = << >>
    /\ order = << >>
    /\ pos = 0
    /\ freeList = NewObjectPool(PoolCapacity)
    /\ liveIdx = {}
    /\ released = << >>
    /\ LidarNotStarted
    /\ QueryNotStarted

ObjectPoolAcquire ==
    /\ LET r == acquire(freeList)
       IN  /\ freeList' = r.free
           /\ lastCall' = [op |-> "acquire", obj |-> r.index, box |-> ZeroBox,
                           thrown |-> FALSE, known |-> r.index \in liveIdx]
           /\ liveIdx' = IF r.index = -1 THEN liveIdx ELSE liveIdx \cup {r.index}
    /\ UNCHANGED <<aabbCount, released>>
    /\ UNCHANGED treeVars
    /\ UNCHANGED orderVars
    /\ UNCHANGED lidarVars
    /\ UNCHANGED queryVars

ObjectPoolRelease(i) ==
    /\ LET thrown == releaseThrows(freeList, PoolCapacity, i)
       IN  /\ freeList' = release(freeList, PoolCapacity, i)
           /\ lastCall' = [op |-> "release", obj |-> i, box |-> ZeroBox,
                           thrown |-> thrown, known |-> i \in liveIdx]
           /\ liveIdx' = IF thrown THEN liveIdx ELSE liveIdx \ {i}
    /\ UNCHANGED <<aabbCount, released>>
    /\ UNCHANGED treeVars
    /\ UNCHANGED orderVars
    /\ UNCHANGED lidarVars
    /\ UNCHANGED queryVars

NextObjectPool ==
    \/ ObjectPoolAcquire
    \/ \E i \in -1 .. PoolCapacity : ObjectPoolRelease(i)

SpecObjectPool == InitObjectPool /\ [][NextObjectPool]_vars

\* ------------------------------------------ the LiDAR worker and its producer
\* The main thread posts the init message.
SendInit ==
    /\ ~producer.initSent
    /\ inbox' = Append(inbox, [type |-> "init", n |-> LidarRayCount])
    /\ producer' = [producer EXCEPT !.initSent = TRUE]
    /\ UNCHANGED <<initialised, insertedObjectCount, totalRayCount, raysBuf, resultsBuf,
                   outbox, lastError>>
    /\ UNCHANGED <<aabbCount, lastCall, liveIdx>>
    /\ UNCHANGED treeVars
    /\ UNCHANGED orderVars
    /\ UNCHANGED poolVars
    /\ UNCHANGED queryVars

\* The main thread writes an AABB while it has no sweep outstanding.
WriteAABB(i, box) ==
    /\ producer.outstanding = 0
    /\ producer.writes < MaxWrites
    /\ aabbs' = [aabbs EXCEPT ![i] = box]
    /\ producer' = [producer EXCEPT !.writes = @ + 1]
    /\ UNCHANGED <<initialised, insertedObjectCount, totalRayCount, raysBuf, resultsBuf,
                   inbox, outbox, lastError>>
    /\ UNCHANGED <<nodes, nodeCount, objectNodeMap, inserted, stayed, nUpdates, nRemoves, nClears, nResets>>
    /\ UNCHANGED <<aabbCount, lastCall, liveIdx>>
    /\ UNCHANGED orderVars
    /\ UNCHANGED poolVars
    /\ UNCHANGED queryVars

\* The main thread writes a ray while it has no sweep outstanding.
WriteRay(r, ray) ==
    /\ producer.outstanding = 0
    /\ producer.writes < MaxWrites
    /\ raysBuf' = [raysBuf EXCEPT ![r] = ray]
    /\ producer' = [producer EXCEPT !.writes = @ + 1]
    /\ UNCHANGED <<initialised, insertedObjectCount, totalRayCount, resultsBuf,
                   inbox, outbox, lastError>>
    /\ UNCHANGED <<aabbCount, lastCall, liveIdx>>
    /\ UNCHANGED treeVars
    /\ UNCHANGED orderVars
    /\ UNCHANGED poolVars
    /\ UNCHANGED queryVars

\* The main thread posts a sweep message and remembers what the buffers held.
SendSweep(objectCount) ==
    /\ producer.outstanding = 0
    /\ producer.sweeps < MaxSweeps
    /\ inbox' = Append(inbox, [type |-> "sweep", n |-> objectCount])
    /\ producer' = [producer EXCEPT !.outstanding = 1, !.sweeps = @ + 1,
                                    !.sentAabbs = aabbs, !.sentRays = raysBuf]
    /\ UNCHANGED <<initialised, insertedObjectCount, totalRayCount, raysBuf, resultsBuf,
                   outbox, lastError>>
    /\ UNCHANGED <<aabbCount, lastCall, liveIdx>>
    /\ UNCHANGED treeVars
    /\ UNCHANGED orderVars
    /\ UNCHANGED poolVars
    /\ UNCHANGED queryVars

\* The main thread receives ready, or receives done and reads the results.
ReceiveReply ==
    /\ outbox # << >>
    /\ outbox' = Tail(outbox)
    /\ producer' = IF Head(outbox).type = "done"
                   THEN [producer EXCEPT !.outstanding = 0, !.read = resultsBuf]
                   ELSE producer
    /\ UNCHANGED <<initialised, insertedObjectCount, totalRayCount, raysBuf, resultsBuf,
                   inbox, lastError>>
    /\ UNCHANGED <<aabbCount, lastCall, liveIdx>>
    /\ UNCHANGED treeVars
    /\ UNCHANGED orderVars
    /\ UNCHANGED poolVars
    /\ UNCHANGED queryVars

\* Variant of WorkerInit that posts no ready reply.
WorkerInitSilent ==
    /\ inbox # << >>
    /\ Head(inbox).type = "init"
    /\ inbox' = Tail(inbox)
    /\ nodes' = NewTreeNodes
    /\ nodeCount' = 1
    /\ objectNodeMap' = << >>
    /\ aabbCount' = 0
    /\ initialised' = TRUE
    /\ totalRayCount' = Head(inbox).n
    /\ insertedObjectCount' = 0
    /\ outbox' = outbox
    /\ lastCall' = [op |-> "init", obj |-> Head(inbox).n, box |-> ZeroBox,
                    thrown |-> FALSE, known |-> initialised]
    /\ lastError' = "none"
    /\ inserted' = {}
    /\ liveIdx' = {}
    /\ UNCHANGED <<aabbs, stayed, nUpdates, nRemoves, nClears, nResets, raysBuf, resultsBuf, producer>>
    /\ UNCHANGED orderVars
    /\ UNCHANGED poolVars
    /\ UNCHANGED queryVars

\* workerSelf.onmessage for an init message: processor.init, then the ready reply.
WorkerInit ==
    /\ inbox # << >>
    /\ Head(inbox).type = "init"
    /\ inbox' = Tail(inbox)
    /\ nodes' = NewTreeNodes
    /\ nodeCount' = 1
    /\ objectNodeMap' = << >>
    /\ aabbCount' = 0
    /\ initialised' = TRUE
    /\ totalRayCount' = Head(inbox).n
    /\ insertedObjectCount' = 0
    /\ outbox' = Append(outbox, [type |-> "ready", n |-> 0])
    /\ lastCall' = [op |-> "init", obj |-> Head(inbox).n, box |-> ZeroBox,
                    thrown |-> FALSE, known |-> initialised]
    /\ lastError' = "none"
    /\ inserted' = {}
    /\ liveIdx' = {}
    /\ UNCHANGED <<aabbs, stayed, nUpdates, nRemoves, nClears, nResets, raysBuf, resultsBuf, producer>>
    /\ UNCHANGED orderVars
    /\ UNCHANGED poolVars
    /\ UNCHANGED queryVars

\* workerSelf.onmessage for a sweep message: processor.sweep, then the done reply;
\* a sweep that throws posts nothing.
WorkerSweep ==
    /\ inbox # << >>
    /\ Head(inbox).type = "sweep"
    /\ inbox' = Tail(inbox)
    /\ LET objectCount == Head(inbox).n
       IN  IF sweepThrows(initialised)
           THEN /\ lastCall' = [op |-> "sweep", obj |-> objectCount, box |-> ZeroBox,
                                thrown |-> TRUE, known |-> initialised]
                /\ lastError' = "NotInitialized"
                /\ UNCHANGED <<nodes, nodeCount, objectNodeMap, aabbCount,
                               insertedObjectCount, resultsBuf, outbox, inserted, liveIdx>>
           ELSE \E S \in {sweep(Tree, aabbs, raysBuf, totalRayCount, objectCount,
                               insertedObjectCount)} :
                    /\ aabbCount' = IF aabbCount < objectCount THEN objectCount
                                    ELSE aabbCount
                    /\ Commit(S.tree)
                    /\ insertedObjectCount' = S.inserted
                    /\ resultsBuf' = IF S.tree.thrown THEN resultsBuf ELSE S.results
                    /\ outbox' = IF S.tree.thrown THEN outbox
                                 ELSE Append(outbox, [type |-> "done", n |-> totalRayCount])
                    /\ lastCall' = [op |-> "sweep", obj |-> objectCount, box |-> ZeroBox,
                                    thrown |-> S.tree.thrown, known |-> initialised]
                    /\ lastError' = IF S.tree.thrown THEN "RangeError" ELSE "none"
                    /\ inserted' = inserted \cup {i \in Objects : i < S.inserted}
                    /\ liveIdx' = liveIdx \cup {i \in Objects : i < objectCount}
    /\ UNCHANGED <<aabbs, stayed, nUpdates, nRemoves, nClears, nResets, initialised, totalRayCount, raysBuf,
                   producer>>
    /\ UNCHANGED orderVars
    /\ UNCHANGED poolVars
    /\ UNCHANGED queryVars

NextLidar ==
    \/ SendInit
    \/ \E i \in LidarSlots, box \in LidarBoxes : WriteAABB(i, box)
    \/ \E r \in 1 .. LidarRayCount, ray \in LidarRays : WriteRay(r, ray)
    \/ \E objectCount \in LidarCounts : SendSweep(objectCount)
    \/ ReceiveReply
    \/ WorkerInit
    \/ WorkerSweep

SpecLidar == Init /\ [][NextLidar]_vars

\* The worker's event loop dispatches every queued message. A sweep message at
\* the head of the inbox enables WorkerSweep and only WorkerSweep takes it, so
\* weak fairness of WorkerSweep is written out with that enabling condition.
SweepQueued == inbox # << >> /\ Head(inbox).type = "sweep"
SweepTaken == SweepQueued /\ inbox' = Tail(inbox)

SpecLidarFair ==
    /\ Init /\ [][NextLidar]_vars
    /\ WF_vars(WorkerInit)
    /\ ([]<>(~SweepQueued) \/ []<><<SweepTaken>>_vars)

\* ------------------------------------------------------- claim vocabulary
AllocatedNodes == 0 .. (nodeCount - 1)

Occurrences(s, o) == Cardinality({i \in 1 .. Len(s) : s[i] = o})

\* Box b lies inside box outer, bounds included.
Contains(outer, b) == \A k \in 1 .. 3 : b[k] >= outer[k] /\ b[k + 3] <= outer[k + 3]

\* Boxes a and b overlap, touching faces included.
Overlap(a, b) == \A k \in 1 .. 3 : a[k] <= b[k + 3] /\ a[k + 3] >= b[k]

RECURSIVE SumObjectCounts(_, _)
SumObjectCounts(ns, n) ==
    IF n < 0 THEN 0 ELSE getObjectCount(ns, n) + SumObjectCounts(ns, n - 1)

\* The sum of objectCount over the allocated nodes, as the tests compute it.
TotalObjectCount == SumObjectCounts(nodes, nodeCount - 1)

\* The allocated nodes whose object list holds o.
NodesListing(ns, cnt, o) ==
    {n \in 0 .. (cnt - 1) : Occurrences(getObjects(ns, n), o) > 0}

IsInternal(n) == getFirstChild(nodes, n) # -1

\* Every live object lies inside the world bounds and no insert() lost its object.
WellPlacedInput ==
    /\ inserted = DOMAIN objectNodeMap
    /\ \A o \in inserted : Contains(WorldBounds, aabbs[o])

\* Every midpoint the model computes is an integer.
MidpointsExact ==
    \A n \in 0 .. (NodeCapacity - 1) :
        n < nodeCount =>
            \A k \in 1 .. 3 : (nodes[n].aabb[k] + nodes[n].aabb[k + 3]) % 2 = 0

\* ------------------------------------------------------------------ claims

\* C1: after any sequence of insert / update / remove the sum of objectCount over
\* all allocated nodes equals the number of live objects (inserted and not since
\* removed).
TotalCountEqualsLive == TotalObjectCount = Cardinality(inserted)

\* C2: every object in the object-to-node map occurs exactly once in the object
\* list of the node it maps to and in no other node's list, and every entry of
\* every allocated node's list is in the map and maps to that node.
MapMatchesNodeLists ==
    /\ \A o \in DOMAIN objectNodeMap :
          /\ Occurrences(getObjects(nodes, objectNodeMap[o]), o) = 1
          /\ NodesListing(nodes, nodeCount, o) = {objectNodeMap[o]}
    /\ \A n \in AllocatedNodes :
          \A i \in 1 .. getObjectCount(nodes, n) :
              LET o == getObjects(nodes, n)[i]
              IN  o \in DOMAIN objectNodeMap /\ objectNodeMap[o] = n

\* C3 as claimed: every object stored at a node N fits N (its current AABB lies
\* inside N's AABB, bounds included).
StoredObjectsFitTheirNode ==
    \A n \in AllocatedNodes :
        \A i \in 1 .. getObjectCount(nodes, n) :
            Contains(getAABB(nodes, n), aabbs[getObjects(nodes, n)[i]])

\* C3 as amended: every object stored at a node N whose current AABB lies inside
\* the world bounds fits N.
StoredObjectsInsideWorldFitTheirNode ==
    \A n \in AllocatedNodes :
        \A i \in 1 .. getObjectCount(nodes, n) :
            LET box == aabbs[getObjects(nodes, n)[i]]
            IN  Contains(WorldBounds, box) => Contains(getAABB(nodes, n), box)

\* C3 witness: an update() has just moved an object into a node below the root.
MovedIntoChildNode ==
    /\ lastCall.op = "update"
    /\ lastCall.obj \in DOMAIN objectNodeMap
    /\ lastCall.obj \notin stayed
    /\ objectNodeMap[lastCall.obj] # root
    /\ Occurrences(getObjects(nodes, objectNodeMap[lastCall.obj]), lastCall.obj) = 1

\* C4, for inputs inside the world bounds: queryBox(q) returns each live object
\* whose AABB overlaps q exactly once, and returns no other index.
QueryBoxReturnsOverlappingLive ==
    WellPlacedInput =>
        \A q \in QueryBoxes :
            LET r == queryBox(nodes, aabbs, q)
            IN  \A o \in Objects :
                    Occurrences(r, o) =
                        IF o \in inserted /\ Overlap(aabbs[o], q) THEN 1 ELSE 0

\* C5, for inputs inside the world bounds: raycast returns a hit (idx, t) only if
\* idx is live, t is rayIntersectsAABB(ray, aabb[idx]) and t is the least hit
\* distance over the live objects; it returns NONE only if no live object is hit.
RaycastReturnsClosestLive ==
    WellPlacedInput =>
        \A ray \in Rays :
            LET h == raycast(nodes, aabbs, ray)
                hits == {o \in inserted : rayIntersectsAABB(ray, aabbs[o]) >= 0}
            IN  IF h = NoHit THEN hits = {}
                ELSE /\ h.index \in inserted
                     /\ h.t = rayIntersectsAABB(ray, aabbs[h.index])
                     /\ \A o \in hits : h.t <= rayIntersectsAABB(ray, aabbs[o])

\* Both trees have received every object.
BothOrdersDone == order # << >> /\ pos = Len(order)

\* No insert() into either tree was cut off: both maps hold every object.
NoInsertAborted ==
    /\ DOMAIN objectNodeMap = Objects
    /\ DOMAIN objectNodeMap2 = Objects

SeqToSet(s) == {s[i] : i \in 1 .. Len(s)}

\* C6 as claimed: two fresh trees with the same bounds that received the same
\* objects in two orders answer every raycast with the same {objectIndex, t} (or
\* NONE in both) and every queryBox with the same set of indices.
SameOutcomeInBothOrders ==
    BothOrdersDone =>
        /\ \A ray \in Rays : raycast(nodes, aabbs, ray) = raycast(nodes2, aabbs, ray)
        /\ \A q \in QueryBoxes :
              SeqToSet(queryBox(nodes, aabbs, q)) = SeqToSet(queryBox(nodes2, aabbs, q))

\* C6, for the orders in which no insertion was cut off: the two trees
\* answer every raycast with the same t (NONE in both or a hit in both) and with
\* the same objectIndex unless the two indices are different objects hit at that
\* same t, and every queryBox with the same set of indices.
SameOutcomeInBothOrdersUpToTies ==
    (BothOrdersDone /\ NoInsertAborted) =>
        /\ \A ray \in Rays :
              LET h1 == raycast(nodes, aabbs, ray)
                  h2 == raycast(nodes2, aabbs, ray)
              IN  /\ h1.t = h2.t
                  /\ (h1 = NoHit) = (h2 = NoHit)
                  /\ h1.index # h2.index =>
                        /\ rayIntersectsAABB(ray, aabbs[h1.index]) = h1.t
                        /\ rayIntersectsAABB(ray, aabbs[h2.index]) = h1.t
        /\ \A q \in QueryBoxes :
              SeqToSet(queryBox(nodes, aabbs, q)) = SeqToSet(queryBox(nodes2, aabbs, q))

\* Both orders are done without a cut-off insertion, both roots have
\* subdivided, the two trees list their objects differently, and some ray hits an
\* object in both.
TwoOrdersTwoLayouts ==
    /\ BothOrdersDone
    /\ NoInsertAborted
    /\ getFirstChild(nodes, root) # -1
    /\ getFirstChild(nodes2, root) # -1
    /\ nodes # nodes2
    /\ \E ray \in Rays :
          /\ raycast(nodes, aabbs, ray) # NoHit
          /\ raycast(nodes2, aabbs, ray) # NoHit
          /\ raycast(nodes, aabbs, ray).index # raycast(nodes2, aabbs, ray).index

\* C7 as claimed: an object stored at an internal node fits none of the node's 8
\* children.
InternalObjectsFitNoChild ==
    \A n \in AllocatedNodes :
        IsInternal(n) =>
            \A i \in 1 .. getObjectCount(nodes, n) :
                \A c \in 0 .. 7 :
                    ~Contains(getAABB(nodes, getFirstChild(nodes, n) + c),
                              aabbs[getObjects(nodes, n)[i]])

\* C7 as amended: an object stored at an internal node fits none of the node's 8
\* children, unless its latest update() left it in place because it still fitted
\* its node.
InternalObjectsFitNoChildUnlessStayed ==
    \A n \in AllocatedNodes :
        IsInternal(n) =>
            \A i \in 1 .. getObjectCount(nodes, n) :
                getObjects(nodes, n)[i] \notin stayed =>
                    \A c \in 0 .. 7 :
                        ~Contains(getAABB(nodes, getFirstChild(nodes, n) + c),
                                  aabbs[getObjects(nodes, n)[i]])

\* C7 witness: an internal node holds a straddling object that no update() left in
\* place, while one of its children holds an object too.
StraddlerAtInternalNode ==
    \E n \in AllocatedNodes :
        /\ IsInternal(n)
        /\ \E i \in 1 .. getObjectCount(nodes, n) : getObjects(nodes, n)[i] \notin stayed
        /\ \E c \in 0 .. 7 : getObjectCount(nodes, getFirstChild(nodes, n) + c) > 0

\* C8: every allocated node is a leaf or has exactly 8 children at the contiguous
\* indices firstChild .. firstChild + 7, allocated and with their parent link set
\* to that node.
InternalNodesHaveEightChildren ==
    \A n \in AllocatedNodes :
        IsInternal(n) =>
            \A c \in 0 .. 7 :
                /\ getFirstChild(nodes, n) + c \in AllocatedNodes
                /\ NodeInRange(getFirstChild(nodes, n) + c)
                /\ getParent(nodes, getFirstChild(nodes, n) + c) = n

\* The step is an update() of a mapped object to a box inside the world bounds.
UpdateOfLiveStep ==
    /\ lastCall'.op = "update"
    /\ nUpdates' = nUpdates + 1
    /\ lastCall'.obj \in DOMAIN objectNodeMap
    /\ Contains(WorldBounds, lastCall'.box)

\* C9: update(obj, newBounds) of a live object with bounds inside the root bounds
\* leaves the set of live objects and the total object count unchanged; afterwards
\* obj is listed in exactly one node, that node's AABB contains the new bounds, and
\* if obj moved the node it left no longer lists it.
UpdateKeepsObjectInTree ==
    [][UpdateOfLiveStep =>
        LET o == lastCall'.obj
            after == NodesListing(nodes', nodeCount', o)
        IN  /\ DOMAIN objectNodeMap' = DOMAIN objectNodeMap
            /\ SumObjectCounts(nodes', nodeCount' - 1) = SumObjectCounts(nodes, nodeCount - 1)
            /\ Cardinality(after) = 1
            /\ \A n \in after :
                  /\ Occurrences(getObjects(nodes', n), o) = 1
                  /\ Contains(getAABB(nodes', n), lastCall'.box)
                  /\ n # objectNodeMap[o] =>
                        Occurrences(getObjects(nodes', objectNodeMap[o]), o) = 0]_vars

\* C10: when the new bounds still fit obj's current node, update() only overwrites
\* obj's AABB record: no node record, no map entry and no pool size changes.
UpdateInPlaceChangesOnlyTheAABB ==
    [][(/\ lastCall'.op = "update"
        /\ nUpdates' = nUpdates + 1
        /\ lastCall'.obj \in DOMAIN objectNodeMap
        /\ Contains(getAABB(nodes, objectNodeMap[lastCall'.obj]), lastCall'.box))
       => /\ nodes' = nodes
          /\ nodeCount' = nodeCount
          /\ objectNodeMap' = objectNodeMap
          /\ aabbCount' = aabbCount
          /\ aabbs' = [aabbs EXCEPT ![lastCall'.obj] = lastCall'.box]]_vars

\* C10 witness: an update() has just left an object at an internal node although
\* one of the node's children contains the new bounds.
StayedAboveFittingChild ==
    /\ lastCall.op = "update"
    /\ lastCall.obj \in stayed
    /\ lastCall.obj \in DOMAIN objectNodeMap
    /\ NodeInRange(objectNodeMap[lastCall.obj])
    /\ IsInternal(objectNodeMap[lastCall.obj])
    /\ Occurrences(getObjects(nodes, objectNodeMap[lastCall.obj]), lastCall.obj) = 1
    /\ \E c \in 0 .. 7 :
          /\ NodeInRange(getFirstChild(nodes, objectNodeMap[lastCall.obj]) + c)
          /\ Contains(getAABB(nodes, getFirstChild(nodes, objectNodeMap[lastCall.obj]) + c),
                      aabbs[lastCall.obj])

\* The nodes on the parent chain of n, n excluded, in the node pool ns.
RECURSIVE ProperAncestors(_, _)
ProperAncestors(ns, n) ==
    LET p == getParent(ns, n)
    IN  IF p = -1 THEN {} ELSE {p} \cup ProperAncestors(ns, p)

\* Node a is n or lies on the parent chain of n.
InSubtreeOf(ns, n, a) == n = a \/ a \in ProperAncestors(ns, n)

\* The proper ancestors of n whose AABB contains box.
ContainingAncestors(ns, n, box) ==
    {a \in ProperAncestors(ns, n) : Contains(getAABB(ns, a), box)}

\* The node where a moving update() has to start re-inserting: the containing
\* ancestor that has every other containing ancestor above it, the root if none.
ReinsertionStart(ns, n, box) ==
    LET cands == ContainingAncestors(ns, n, box)
    IN  IF cands = {} THEN root
        ELSE CHOOSE a \in cands : \A b \in cands : InSubtreeOf(ns, a, b)

\* The step is an update() of a mapped object whose new bounds do not fit its node.
MovingUpdateStep ==
    /\ lastCall'.op = "update"
    /\ nUpdates' = nUpdates + 1
    /\ lastCall'.obj \in DOMAIN objectNodeMap
    /\ ~Contains(getAABB(nodes, objectNodeMap[lastCall'.obj]), lastCall'.box)

\* C11: an update() that has to move obj leaves it at the lowest ancestor of its
\* old node whose AABB contains the new bounds (the root if none does) or in that
\* ancestor's subtree.
MovingUpdateEndsUnderLowestAncestor ==
    [][MovingUpdateStep =>
        LET o == lastCall'.obj
            start == ReinsertionStart(nodes, objectNodeMap[o], lastCall'.box)
        IN  /\ o \in DOMAIN objectNodeMap'
            /\ InSubtreeOf(nodes', objectNodeMap'[o], start)
            /\ Occurrences(getObjects(nodes', objectNodeMap'[o]), o) = 1]_vars

\* C11 without the updates that leave by a RangeError.
MovingUpdateEndsUnderLowestAncestorUnlessThrown ==
    [][(MovingUpdateStep /\ ~lastCall'.thrown) =>
        LET o == lastCall'.obj
            start == ReinsertionStart(nodes, objectNodeMap[o], lastCall'.box)
        IN  /\ o \in DOMAIN objectNodeMap'
            /\ InSubtreeOf(nodes', objectNodeMap'[o], start)]_vars

\* The step is a remove() or an update() for an object that is not in the map.
UnknownObjectStep ==
    /\ lastCall'.op \in {"remove", "update"}
    /\ lastCall'.obj \notin DOMAIN objectNodeMap

\* C12: remove(obj) and update(obj, ...) for an object that is not in the map raise
\* no error and change no node record, no map entry and no pool size; remove leaves
\* the AABB pool unchanged and update changes only obj's own AABB record.  A second
\* remove(obj) is such a call, so it changes nothing.
UnknownObjectCallsAreNoOps ==
    [][UnknownObjectStep =>
        /\ ~lastCall'.thrown
        /\ nodes' = nodes
        /\ nodeCount' = nodeCount
        /\ objectNodeMap' = objectNodeMap
        /\ aabbCount' = aabbCount
        /\ lastCall'.op = "remove" => aabbs' = aabbs
        /\ lastCall'.op = "update" =>
              \A o \in Objects :
                  aabbs'[o] = IF o = lastCall'.obj THEN lastCall'.box ELSE aabbs[o]]_vars

\* C12 witness: the object of the one remove() that found its object has just been
\* removed a second time, while other objects are still in the tree.
RemovedTwice ==
    /\ lastCall.op = "remove"
    /\ ~lastCall.known
    /\ nRemoves = 1
    /\ lastCall.obj \notin inserted
    /\ inserted # {}
    /\ inserted = DOMAIN objectNodeMap
    /\ \A o \in Objects : o < aabbCount /\ o # lastCall.obj => o \in inserted

\* The step is a remove() of an object that is in the map.
RemoveOfLiveStep ==
    /\ lastCall'.op = "remove"
    /\ nRemoves' = nRemoves + 1
    /\ lastCall'.obj \in DOMAIN objectNodeMap

\* What C13 says of a step that removes object o.
RemoveEffect(o) ==
    /\ o \notin DOMAIN objectNodeMap'
    /\ \A x \in DOMAIN objectNodeMap \ {o} :
          x \in DOMAIN objectNodeMap' /\ objectNodeMap'[x] = objectNodeMap[x]
    /\ Occurrences(getObjects(nodes, objectNodeMap[o]), o) = 1
    /\ Occurrences(getObjects(nodes', objectNodeMap[o]), o) = 0
    /\ nodeCount' = nodeCount
    /\ \A n \in AllocatedNodes :
          /\ getFirstChild(nodes', n) = getFirstChild(nodes, n)
          /\ getParent(nodes', n) = getParent(nodes, n)
          /\ getAABB(nodes', n) = getAABB(nodes, n)
          /\ \A x \in Objects \ {o} :
                Occurrences(getObjects(nodes', n), x) = Occurrences(getObjects(nodes, n), x)
    /\ \A q \in QueryBoxes : o \notin SeqToSet(queryBox(nodes', aabbs', q))
    /\ \A ray \in Rays : raycast(nodes', aabbs', ray).index # o

\* C13: remove(obj) of a live object deletes obj's map entry and exactly obj's entry
\* from the object list of the node it mapped to, leaves every other object where
\* it was and every node link unchanged; afterwards no raycast or queryBox returns
\* obj.
RemoveDeletesExactlyTheObject ==
    [][RemoveOfLiveStep => RemoveEffect(lastCall'.obj)]_vars

\* C13 for objects mapped to a node inside the node buffer.
RemoveDeletesExactlyTheObjectWithinPool ==
    [][(RemoveOfLiveStep /\ NodeInRange(objectNodeMap[lastCall'.obj]))
          => RemoveEffect(lastCall'.obj)]_vars

\* The step is an insert() of the object just made.
InsertStep ==
    /\ lastCall'.op = "insert"
    /\ aabbCount' = aabbCount + 1

\* Object o is in the map and listed once, by the node it maps to and no other.
StoredOnce(ns, cnt, m, o) ==
    /\ o \in DOMAIN m
    /\ NodesListing(ns, cnt, o) = {m[o]}
    /\ Occurrences(getObjects(ns, m[o]), o) = 1

\* Object o is neither in the map nor in any node's list.
NotStored(ns, cnt, m, o) ==
    /\ o \notin DOMAIN m
    /\ NodesListing(ns, cnt, o) = {}

\* What C14 says of a step that inserts object o: the call returns without an
\* error, o is stored or its insertion is aborted, and every object stored before
\* is still stored.
InsertEffect(o) ==
    /\ ~lastCall'.thrown
    /\ \/ StoredOnce(nodes', nodeCount', objectNodeMap', o)
       \/ NotStored(nodes', nodeCount', objectNodeMap', o)
    /\ \A x \in Objects :
          StoredOnce(nodes, nodeCount, objectNodeMap, x)
              => StoredOnce(nodes', nodeCount', objectNodeMap', x)

\* C14: every insert() returns; when the objects cannot be separated the retry
\* after the subdivision is cut off and only the insertion of the excess object
\* is aborted.
InsertStoresOrAbortsTheExcess == [][InsertStep => InsertEffect(lastCall'.obj)]_vars

\* C14 for the inserts that leave the node pool within its capacity.
InsertStoresOrAbortsTheExcessWithinPool ==
    [][(InsertStep /\ nodeCount' <= NodeCapacity) => InsertEffect(lastCall'.obj)]_vars

\* No value occurs twice in s, and every value of s is an allocated node.
PopsEachAllocatedNodeOnce(s) ==
    /\ \A i, j \in 1 .. Len(s) : s[i] = s[j] => i = j
    /\ \A i \in 1 .. Len(s) : s[i] \in AllocatedNodes

\* C15: every raycast and queryBox on a reachable tree runs to its end popping each
\* allocated node at most once; when no live object is hit raycast returns NONE,
\* and when no live object overlaps the box queryBox returns the empty sequence
\* (on an empty tree in particular).
QueriesVisitEachNodeOnce ==
    /\ \A ray \in Rays :
          LET call == raycastCall(nodes, aabbs, octreeStack, ray)
          IN  /\ PopsEachAllocatedNodeOnce(call.popped)
              /\ (\A o \in inserted : rayIntersectsAABB(ray, aabbs[o]) < 0)
                    => call.hit = NoHit
    /\ \A q \in QueryBoxes :
          LET call == queryBoxCall(nodes, aabbs, octreeStack, q)
          IN  /\ PopsEachAllocatedNodeOnce(call.popped)
              /\ (\A o \in inserted : ~Overlap(aabbs[o], q))
                    => call.found = << >>

\* C15 witness: in a subdivided tree that holds objects, that lost an object to a
\* remove() and whose latest call was an update() that moved a mapped object to
\* another node, a raycast pops the root and some of its children and misses, and
\* a queryBox pops the root and some of its children and finds nothing.
TraversalsThatMiss ==
    /\ getFirstChild(nodes, root) # -1
    /\ nodeCount <= NodeCapacity
    /\ inserted # {}
    /\ inserted = DOMAIN objectNodeMap
    /\ nRemoves > 0
    /\ lastCall.op = "update"
    /\ lastCall.known
    /\ ~lastCall.thrown
    /\ lastCall.obj \notin stayed
    /\ \E ray \in Rays :
          LET call == raycastCall(nodes, aabbs, octreeStack, ray)
          IN  Len(call.popped) >= 3 /\ call.hit = NoHit
    /\ \E q \in QueryBoxes :
          LET call == queryBoxCall(nodes, aabbs, octreeStack, q)
          IN  Len(call.popped) >= 2 /\ call.found = << >>

\* The latest call was an update() of a mapped object that raised from its
\* re-insertion and left the object out of the tree, and the queries run on the
\* tree it left.
TraversalsAfterFailedUpdate ==
    /\ lastCall.op = "update"
    /\ lastCall.known
    /\ lastCall.thrown
    /\ lastCall.obj \notin DOMAIN objectNodeMap
    /\ \E q \in QueryBoxes : queryBoxCall(nodes, aabbs, octreeStack, q).found # << >>

\* The step is an AABBPool.allocate(), release() or reset().
AllocateStep == lastCall'.op = "allocate"
ReleaseStep == lastCall'.op = "release"
ResetStep == lastCall'.op = "reset"

\* C16: an index that allocate() returned and that no release() or reset() has taken
\* back is never returned by a later allocate().
LiveIndicesNeverAlias == [][AllocateStep => lastCall'.obj \notin liveIdx]_vars

\* C17: allocate() returns an index in [0, capacity), and fails exactly when the
\* free-list is empty and the bump counter has reached the capacity.
AllocateStaysWithinCapacity ==
    [][AllocateStep =>
        /\ lastCall'.obj \in 0 .. (PoolCapacity - 1)
        /\ lastCall'.thrown = (freeList = << >> /\ aabbCount >= PoolCapacity)]_vars

\* C18: a release(i) that is accepted and immediately followed by allocate() gives
\* i back; while released slots are waiting, allocate() hands out the one released
\* last and makes no bump allocation; reset() empties the free-list and the
\* allocate() after it returns 0.
ReleasedSlotsComeBackLIFO ==
    [][/\ (AllocateStep /\ lastCall.op = "release" /\ ~lastCall.thrown)
            => lastCall'.obj = lastCall.obj
       /\ (AllocateStep /\ released # << >>)
            => /\ lastCall'.obj = released[Len(released)]
               /\ aabbCount' = aabbCount
       /\ ResetStep => freeList' = << >>
       /\ (AllocateStep /\ lastCall.op = "reset") => lastCall'.obj = 0]_vars

\* Of two released slots the later one has just been handed out again and the
\* earlier one is still waiting.
ReusedWhileAnotherWaits ==
    /\ lastCall.op = "allocate"
    /\ Len(released) = 1
    /\ lastCall.obj # released[1]
    /\ lastCall.obj < aabbCount - 1
    /\ aabbCount <= PoolCapacity

\* The index is outside [0, capacity).
OutOfRange(i) == i < 0 \/ i >= PoolCapacity

\* The index was released and has not been handed out again since.
AlreadyReleased(i) == i \in SeqToSet(released)

\* C19: release(i) fails when i is outside [0, capacity) and when i is already
\* released; a release that fails changes neither the free-list nor the counter.
BadReleaseFails ==
    [][ReleaseStep =>
        /\ (OutOfRange(lastCall'.obj) \/ AlreadyReleased(lastCall'.obj))
             => lastCall'.thrown
        /\ lastCall'.thrown => (freeList' = freeList /\ aabbCount' = aabbCount)]_vars

\* What the code does: the out-of-range release fails, the double release fails
\* only once the free-list holds capacity-many entries, and a failed release
\* changes nothing.
BadReleaseFailsWhenOutOfRangeOrFull ==
    [][ReleaseStep =>
        /\ lastCall'.thrown
             = (OutOfRange(lastCall'.obj) \/ Len(freeList) >= PoolCapacity)
        /\ lastCall'.thrown => (freeList' = freeList /\ aabbCount' = aabbCount)]_vars

\* Every release so far was of a live index: the free-list holds no index twice
\* and no live one, and every index live or released was bump-allocated.
FreeListIsOfDeadIndices ==
    /\ \A k \in DOMAIN freeList : freeList[k] \notin liveIdx /\ freeList[k] < aabbCount
    /\ \A i \in liveIdx : i < aabbCount
    /\ Cardinality(SeqToSet(freeList)) = Len(freeList)

\* While only live indices have been released, allocate() returns no live index.
LiveIndicesNeverAliasAfterProperReleases ==
    [][(AllocateStep /\ FreeListIsOfDeadIndices) => lastCall'.obj \notin liveIdx]_vars

PoolSize == size(Pool)

\* C20: size grows by one on a bump allocation, is left alone by release() and by
\* an allocate() that reuses a released slot, and is 0 after reset(); so it is the
\* number of bump allocations since the last reset.
SizeCountsBumpAllocations ==
    [][/\ (AllocateStep /\ released = << >>)
            => (PoolSize' = PoolSize + 1 /\ lastCall'.obj = PoolSize)
       /\ (AllocateStep /\ released # << >>) => PoolSize' = PoolSize
       /\ ReleaseStep => PoolSize' = PoolSize
       /\ ResetStep => PoolSize' = 0]_vars

\* A released slot has been handed out again and size has stayed at the number of
\* bump allocations, with one slot released since.
ReusedSlotBelowSize ==
    /\ lastCall.op = "allocate"
    /\ lastCall.obj < aabbCount - 1
    /\ aabbCount = 2
    /\ released = <<1>>

\* The step is an ObjectPool.acquire().
AcquireStep == lastCall'.op = "acquire"

\* What acquire() promises on every call, whatever was released before.
AcquireInRangeOrNone ==
    /\ (lastCall'.obj = -1) = (available(freeList) = 0)
    /\ lastCall'.obj # -1 => lastCall'.obj \in 0 .. (PoolCapacity - 1)

\* C21: a fresh ObjectPool has all capacity indices available; acquire() returns
\* NONE exactly when the free-list is empty and otherwise an index in
\* [0, capacity) that is not among the indices acquired and not yet released;
\* the number of available indices stays within [0, capacity].
ObjectPoolHandsOutDistinctIndices ==
    /\ available(freeList) = PoolCapacity
    /\ [][/\ AcquireStep => (AcquireInRangeOrNone /\ lastCall'.obj \notin liveIdx)
          /\ available(freeList') \in 0 .. PoolCapacity]_vars

\* Every release so far was of an acquired index: the free-list holds no index
\* twice and none that is acquired.
FreeListIsOfUnacquiredIndices ==
    /\ \A k \in DOMAIN freeList : freeList[k] \notin liveIdx
    /\ Cardinality(SeqToSet(freeList)) = Len(freeList)

\* What the code keeps of C21: everything but the distinctness holds always, and
\* the distinctness holds while only acquired indices have been released.
ObjectPoolHandsOutDistinctIndicesAfterProperReleases ==
    /\ available(freeList) = PoolCapacity
    /\ [][/\ AcquireStep => AcquireInRangeOrNone
          /\ (AcquireStep /\ FreeListIsOfUnacquiredIndices)
                => lastCall'.obj \notin liveIdx
          /\ available(freeList') \in 0 .. PoolCapacity]_vars

\* The node records inside the pool's buffer.
PoolNodes == 0 .. (NodeCapacity - 1)

\* The node records that allocate() has handed out.
NodesInUse == {n \in PoolNodes : n < nodeCount}

\* C22: the node pool never hands out a node index >= its capacity, and no node
\* gets a firstChild whose 8 children do not all lie inside the pool; a subdivide
\* that cannot fit 8 more nodes has to fail instead.
NodePoolStaysWithinCapacity ==
    /\ nodeCount <= NodeCapacity
    /\ \A n \in NodesInUse :
          nodes[n].firstChild # -1 => nodes[n].firstChild + 7 < NodeCapacity

\* The call made an addObject that failed: an update() that left by the RangeError,
\* or an insert() that swallowed it and stored nothing.
AddObjectFailedStep ==
    \/ lastCall'.op = "update" /\ lastCall'.thrown
    \/ /\ lastCall'.op = "insert"
       /\ lastCall'.obj \notin DOMAIN objectNodeMap'

\* Nodes that hold K objects before the step, other than the node the object of
\* the call is taken out of.
FullNodesNotLeft ==
    {n \in PoolNodes :
        /\ Len(nodes[n].objs) = MAX_OBJECTS_PER_NODE
        /\ lastCall'.obj \in DOMAIN objectNodeMap => n # objectNodeMap[lastCall'.obj]}

\* C23: every node holds between 0 and K objects and addObject refuses a node that
\* holds K; a call whose addObject failed found a node with K objects and left the
\* object list of every such node as it was.
NodesHoldAtMostK ==
    /\ [](\A n \in PoolNodes :
            /\ Len(nodes[n].objs) <= MAX_OBJECTS_PER_NODE
            /\ Len(nodes[n].objs) = MAX_OBJECTS_PER_NODE => addObjectThrows(nodes, n))
    /\ [][AddObjectFailedStep =>
            /\ FullNodesNotLeft # {}
            /\ \A n \in FullNodesNotLeft : nodes'[n].objs = nodes[n].objs]_vars

\* C23 witness: an update() has just failed on a node that holds K objects.
UpdateRefusedByFullNode ==
    /\ lastCall.op = "update"
    /\ lastCall.thrown
    /\ \E n \in PoolNodes : Len(nodes[n].objs) = MAX_OBJECTS_PER_NODE

\* Bit k (0 for X, 1 for Y, 2 for Z) of the octant number i.
OctantBit(i, k) == (i \div (2 ^ k)) % 2

\* Box c is octant i of box nb: on each axis the lower half [min, mid] when the
\* bit is clear, the upper half [mid, max] when it is set, with 2 * mid = min + max.
IsOctant(c, nb, i) ==
    \A k \in 1 .. 3 :
        IF OctantBit(i, k - 1) = 0
        THEN c[k] = nb[k] /\ 2 * c[k + 3] = nb[k] + nb[k + 3]
        ELSE 2 * c[k] = nb[k] + nb[k + 3] /\ c[k + 3] = nb[k + 3]

\* The corners, edge midpoints, face centres and centre of box nb.
SamplePoints(nb) ==
    {<<x, y, z>> : x \in {nb[1], (nb[1] + nb[4]) \div 2, nb[4]},
                   y \in {nb[2], (nb[2] + nb[5]) \div 2, nb[5]},
                   z \in {nb[3], (nb[3] + nb[6]) \div 2, nb[6]}}

PointIn(pt, b) == \A k \in 1 .. 3 : b[k] <= pt[k] /\ pt[k] <= b[k + 3]

\* The 8 children of internal node n are the octants of n's AABB, lie inside it
\* and cover it.
ChildrenAreOctants(n) ==
    LET nb == getAABB(nodes, n)
        first == getFirstChild(nodes, n)
    IN  /\ \A i \in 0 .. 7 :
              /\ IsOctant(getAABB(nodes, first + i), nb, i)
              /\ Contains(nb, getAABB(nodes, first + i))
        /\ \A pt \in SamplePoints(nb) :
              \E i \in 0 .. 7 : PointIn(pt, getAABB(nodes, first + i))

\* C24: the children of every subdivided node are the octants of its AABB split at
\* the per-axis midpoint, bit 0 of the child number selecting the X half, bit 1 the
\* Y half and bit 2 the Z half; they lie inside the node's AABB and cover it.
SubdivisionSplitsAtMidpoints ==
    \A n \in NodesInUse : IsInternal(n) => ChildrenAreOctants(n)

\* The same for the nodes whose children lie inside the pool's buffer.
SubdivisionSplitsAtMidpointsWithinPool ==
    \A n \in NodesInUse :
        (IsInternal(n) /\ getFirstChild(nodes, n) + 7 < NodeCapacity)
            => ChildrenAreOctants(n)

\* The nodes that a subdivision has turned from a leaf into an internal node; no
\* operation turns one back.
SubdividedNodes == {n \in NodesInUse : nodes[n].firstChild # -1}

\* C25: the node pool's size is 1 + 8 * s, s being the number of subdivisions made
\* so far, each of which made one more leaf an internal node.
NodePoolSizeIsOnePlusEightPerSubdivision ==
    nodeCount = 1 + 8 * Cardinality(SubdividedNodes)

\* C25 witness: a subdivision of the root, and an update that moved an object
\* afterwards.
SubdivisionThenMovingUpdate ==
    /\ SubdividedNodes = {root}
    /\ nodeCount = 9
    /\ lastCall.op = "update"
    /\ lastCall.known
    /\ lastCall.obj \notin stayed

\* The step is the worker's handling of a sweep message.
SweepStep ==
    /\ inbox # << >>
    /\ Head(inbox).type = "sweep"
    /\ inbox' = Tail(inbox)

\* The sweep of the step returned done.
SweepDoneStep == SweepStep /\ lastError' = "none"

\* The done reply of the step carries the rayCount given to init.
RepliesDoneWithRayCount ==
    outbox' = Append(outbox, [type |-> "done", n |-> LidarRayCount])

\* What Octree.raycast returns for ray r against the tree the step leaves.
HitAfterSweep(r) == raycast(nodes', aabbs', raysBuf'[r])

\* C26 as stated: after a sweep that returns done, the results buffer holds for
\* every ray the objectIndex and t that Octree.raycast returns against the tree after
\* the sweep's inserts and updates, or -1, -1 when it returns no hit, and the done
\* reply carries the rayCount given to init.
SweepWritesRaycastHits ==
    [][SweepDoneStep =>
        /\ RepliesDoneWithRayCount
        /\ \A r \in 1 .. LidarRayCount :
              resultsBuf'[r] =
                  IF HitAfterSweep(r) = NoHit THEN [index |-> -1, t |-> -1]
                  ELSE [index |-> HitAfterSweep(r).index, t |-> HitAfterSweep(r).t]]_vars

\* y is an integer that a float32 holds exactly (for magnitudes up to 2^25).
Float32Int(y) ==
    LET a == IF y < 0 THEN -y ELSE y
    IN  a <= 16777216 \/ (a <= 33554432 /\ a % 2 = 0)

Distance(x, y) == IF x < y THEN y - x ELSE x - y

\* y is a float32 value nearest to x.
NearestFloat32(y, x) ==
    /\ Float32Int(y)
    /\ \A z \in (x - 1) .. (x + 1) : Float32Int(z) => Distance(y, x) <= Distance(z, x)

\* C26 amended: the results buffer holds objectIndex and t rounded to the nearest
\* 32-bit float, the buffer being a Float32Array.
SweepWritesRaycastHitsAsFloat32 ==
    [][SweepDoneStep =>
        /\ RepliesDoneWithRayCount
        /\ \A r \in 1 .. LidarRayCount :
              IF HitAfterSweep(r) = NoHit
              THEN resultsBuf'[r] = [index |-> -1, t |-> -1]
              ELSE /\ resultsBuf'[r].index = HitAfterSweep(r).index
                   /\ NearestFloat32(resultsBuf'[r].t, HitAfterSweep(r).t)]_vars

\* C26 witness: a sweep has returned done with a hit of object 0 whose t was
\* rounded and with a miss.
SweepWroteRoundedHitAndMiss ==
    /\ lastCall.op = "sweep"
    /\ lastError = "none"
    /\ \E r \in 1 .. LidarRayCount :
          /\ resultsBuf[r].index = 0
          /\ resultsBuf[r].t # raycast(nodes, aabbs, raysBuf[r]).t
    /\ \E r \in 1 .. LidarRayCount : resultsBuf[r] = [index |-> -1, t |-> -1]

\* After the step object i is stored once, in a node that contains its current
\* AABB when the AABB lies inside the world bounds.
HeldWithCurrentAABB(i) ==
    /\ StoredOnce(nodes', nodeCount', objectNodeMap', i)
    /\ Contains(WorldBounds, aabbs'[i])
          => Contains(getAABB(nodes', objectNodeMap'[i]), aabbs'[i])

\* What C27 says of a sweep of objectCount objects that returns done.
SweepEffect(objectCount) ==
    /\ insertedObjectCount' =
          IF insertedObjectCount < objectCount THEN objectCount ELSE insertedObjectCount
    /\ \A i \in Objects : i < objectCount => HeldWithCurrentAABB(i)
    /\ \A i \in Objects : i >= insertedObjectCount' => NotStored(nodes', nodeCount', objectNodeMap', i)

\* C27: across the sweeps after one init every index below objectCount is inserted
\* by the first sweep that covers it and only updated by later ones; no index is
\* stored twice, and after each sweep the tree holds every index below objectCount
\* with its current AABB.
SweepKeepsEveryObjectInTree == [][SweepDoneStep => SweepEffect(Head(inbox).n)]_vars

\* C27 for the sweeps that leave the node pool within its capacity.
SweepKeepsEveryObjectInTreeWithinPool ==
    [][(SweepDoneStep /\ nodeCount' <= NodeCapacity) => SweepEffect(Head(inbox).n)]_vars

\* C28: a sweep on a processor that has had no init fails with NotInitialized and
\* writes to no buffer; once init has returned, no sweep fails with NotInitialized.
SweepBeforeInitFails ==
    [][SweepStep =>
        IF ~initialised
        THEN /\ lastError' = "NotInitialized"
             /\ UNCHANGED <<aabbs, raysBuf, resultsBuf, nodes, outbox>>
        ELSE lastError' # "NotInitialized"]_vars

\* C28 witness: a sweep has failed with NotInitialized; the init message is still
\* waiting behind it.
SweepFailedBeforeInit ==
    /\ lastCall.op = "sweep"
    /\ lastError = "NotInitialized"
    /\ ~initialised
    /\ inbox # << >>

\* A sweep message is waiting for the worker: the sweep may be running.
SweepPending == \E k \in DOMAIN inbox : inbox[k].type = "sweep"

\* The step is a write of the producer into the AABB or ray buffer.
ProducerWriteStep == producer'.writes # producer.writes

\* The step is the producer's receipt of done, with its read of the results.
ReceiveDoneStep ==
    /\ outbox # << >>
    /\ Head(outbox).type = "done"
    /\ outbox' = Tail(outbox)

\* C29: with a producer that writes the AABB and ray buffers only while it has no
\* sweep outstanding and reads the results only after done, the producer never
\* touches a shared buffer while a sweep can be running, the worker runs a sweep only
\* while the producer waits, and the results read after done are those computed from
\* the AABB and ray data as they were when the sweep message was sent.
ProducerAndWorkerNeverOverlap ==
    [][/\ (ProducerWriteStep \/ ReceiveDoneStep) => ~SweepPending
       /\ SweepStep => producer.outstanding = 1
       /\ ReceiveDoneStep =>
             /\ aabbs = producer.sentAabbs
             /\ raysBuf = producer.sentRays
             /\ producer'.read =
                   [r \in 1 .. LidarRayCount |->
                       WriteHit(raycast(nodes, producer.sentAabbs, producer.sentRays[r]))]]_vars

\* C29 witness: the producer has written, swept, written again, swept again and
\* read a hit.
ProducerReadSecondSweep ==
    /\ producer.sweeps = 2
    /\ producer.outstanding = 0
    /\ producer.writes >= 2
    /\ producer.read # << >>
    /\ \E r \in 1 .. LidarRayCount : producer.read[r].index >= 0
    /\ producer.sentAabbs # [o \in Objects |-> ZeroBox]


\* ------------------------------------------------------------------- C30
ClearStep == lastCall'.op = "clear"

InsertAfterClearStep == lastCall.op = "clear" /\ lastCall'.op = "insert"

RootBounds == getAABB(nodes, root)

\* The tree as new Octree() leaves it: one node, the root, a childless leaf
\* without objects, no AABB allocated, nothing mapped, every query empty.
FreshlyConstructed ==
    /\ nodeCount = 1
    /\ root = 0
    /\ getFirstChild(nodes, root) = -1
    /\ getParent(nodes, root) = -1
    /\ getObjectCount(nodes, root) = 0
    /\ size(Pool) = 0
    /\ freeList = << >>
    /\ objectNodeMap = << >>
    /\ \A q \in QueryBoxes \cup {RootBounds} : queryBox(nodes, aabbs, q) = << >>

\* C30: after clear() the tree is as freshly constructed (one node, rootIndex 0,
\* the root a childless leaf with zero objects, AABB pool size 0, queryBox over
\* the root bounds empty), and the insert that follows succeeds, takes AABB
\* index 0 and is what queryBox over the root bounds returns.
ClearLeavesFreshTree ==
    /\ [](lastCall.op = "clear" => FreshlyConstructed)
    /\ [][ClearStep => RootBounds' = RootBounds]_vars
    /\ [][InsertAfterClearStep =>
            /\ ~lastCall'.thrown
            /\ lastCall'.obj = 0
            /\ StoredOnce(nodes', nodeCount', objectNodeMap', 0)
            /\ queryBox(nodes', aabbs', RootBounds') = <<0>>
            /\ queryBox(nodes', aabbs', lastCall'.box) = <<0>>]_vars

\* A tree that was subdivided (slot 1 was a child of the root), then cleared, and
\* now holds one freshly inserted object whose AABB slot held another box before.
FreshInsertAfterClearingSubdividedTree ==
    /\ lastCall.op = "insert"
    /\ lastCall.obj = 0
    /\ lastCall.box = BoxS
    /\ nodeCount = 1
    /\ nodes[1].parent = root
    /\ nodes[1].firstChild = -1
    /\ nodes[1].objs # << >>
    /\ aabbs[1] = ZeroBox
    /\ aabbs[8] = ZeroBox
    /\ queryBox(nodes, aabbs, RootBounds) = <<0>>


\* ------------------------------------------------------------------- C31
\* The closest hit among the objects inserted since the reset: [t, index], index
\* -1 when the ray hits none of them.
RECURSIVE ClosestAmong(_, _, _)
ClosestAmong(S, ray, best) ==
    IF S = {} THEN best
    ELSE LET o == CHOOSE x \in S : \A y \in S : x <= y
             t == rayIntersectsAABB(ray, aabbs[o])
         IN  ClosestAmong(S \ {o}, ray,
                          IF t >= 0 /\ (best.index = -1 \/ t < best.t)
                          THEN [t |-> t, index |-> o] ELSE best)

\* C31: after nodePool.reset() and aabbPool.reset(), with the frame's objects
\* allocated and inserted into the same Octree, queryBox returns exactly the
\* objects inserted since the reset that overlap the region, each once, and
\* raycast returns a hit of the least distance among them, or none if none is hit.
FrameQueriesReflectFrameObjects ==
    nResets > 0 /\ lastCall.op = "insert" =>
        /\ \A q \in QueryBoxes :
               LET r == queryBox(nodes, aabbs, q)
               IN  \A o \in Objects :
                       Occurrences(r, o) =
                           IF o \in inserted /\ Overlap(aabbs[o], q) THEN 1 ELSE 0
        /\ \A ray \in Rays :
               LET hit == raycast(nodes, aabbs, ray)
                   want == ClosestAmong(inserted, ray, [t |-> -1, index |-> -1])
               IN  IF want.index = -1 THEN hit = NoHit
                   ELSE /\ hit # NoHit
                        /\ hit.index \in inserted
                        /\ hit.t = want.t

\* An insert after a reset has subdivided the root with the pool's counter at 0: the
\* root is its own first child and parent, and the objects it listed are in no list.
RootBecameItsOwnChild ==
    /\ nResets > 0
    /\ lastCall.op = "insert"
    /\ ~lastCall.thrown
    /\ getFirstChild(nodes, root) = root
    /\ getParent(nodes, root) = root
    /\ lastCall.obj \notin DOMAIN objectNodeMap
    /\ \A n \in AllocatedNodes : getObjectCount(nodes, n) = 0

\* An insert into the tree whose root is its own child has ended in the call stack
\* overflow, raised out of insert.
InsertOverflowedTheCallStack ==
    /\ lastCall.op = "insert"
    /\ lastCall.thrown
    /\ getFirstChild(nodes, root) = root
    /\ ~addObjectThrows(nodes, root)


\* ------------------------------------------------------------------- C32
\* The node an insert of object o ends its descent at: from n down through the
\* first child that contains the object, until a leaf or a node none of whose
\* children contains it.
RECURSIVE DescentEnd(_, _, _, _)
DescentEnd(ns, ap, n, o) ==
    LET first == getFirstChild(ns, n)
        fitting == {i \in 0 .. 7 : Contains(getAABB(ns, first + i), ap[o])}
    IN  IF first = -1 \/ fitting = {} \/ ~NodeInRange(n) THEN n
        ELSE DescentEnd(ns, ap, first + (CHOOSE i \in fitting : \A j \in fitting : i <= j), o)

\* The insert made by this step reaches an internal node that already holds
\* MAX_OBJECTS_PER_NODE objects, with an object none of its children contains.
InsertReachesFullInternalNode ==
    /\ lastCall'.op = "insert"
    /\ LET n == DescentEnd(nodes, aabbs', root, lastCall'.obj)
       IN  /\ NodeInRange(n)
           /\ getFirstChild(nodes, n) # -1
           /\ getObjectCount(nodes, n) = MAX_OBJECTS_PER_NODE

\* C32: an insert that reaches an internal node already holding K objects with
\* an object that fits none of its children fails with the error surfaced to the
\* caller, and leaves the node pool's size, every node record and the
\* object-to-node map as they were.
InsertIntoFullInternalNodeFails ==
    [][InsertReachesFullInternalNode =>
           /\ lastCall'.thrown
           /\ nodeCount' = nodeCount
           /\ nodes' = nodes
           /\ objectNodeMap' = objectNodeMap]_vars

\* An insert was refused by the root, internal and holding K straddling objects.
InsertRefusedByFullRoot ==
    /\ lastCall.op = "insert"
    /\ lastCall.thrown
    /\ lastCall.box = BoxS
    /\ getFirstChild(nodes, root) # -1
    /\ getObjectCount(nodes, root) = MAX_OBJECTS_PER_NODE
    /\ lastCall.obj \notin DOMAIN objectNodeMap
    /\ nodeCount <= NodeCapacity


\* ------------------------------------------------------------------- C33
\* Only insert() calls have been made so far.
OnlyInserts == nUpdates = 0 /\ nRemoves = 0 /\ nClears = 0 /\ nResets = 0

\* The octants of the root that contain the box.
RootOctantsContaining(box) ==
    {i \in 0 .. 7 : Contains(ChildBox(WorldBounds, i), box)}

\* The objects among the first k inserted whose box no octant of the root contains.
RECURSIVE StraddlersUpTo(_, _)
StraddlersUpTo(ap, k) ==
    IF k = 0 THEN << >>
    ELSE IF RootOctantsContaining(ap[k - 1]) = {}
         THEN Append(StraddlersUpTo(ap, k - 1), k - 1)
         ELSE StraddlersUpTo(ap, k - 1)

\* A node that was a leaf in use before the step is internal after it.
BecomesInternal(n) ==
    /\ n < nodeCount
    /\ getFirstChild(nodes, n) = -1
    /\ getFirstChild(nodes', n) # -1

\* C33: a leaf is subdivided only by an insertion that finds it holding K
\* objects; after K inserts into a fresh tree the root is a leaf holding all K;
\* the (K+1)-th insert subdivides the root and retries at the root, now internal:
\* the new object is pushed into a child that contains it, or is added to the
\* root's list if none does and the list has room.
LeafSubdividesOnlyWhenFull ==
    /\ [][\A n \in PoolNodes :
             BecomesInternal(n) =>
                 /\ getObjectCount(nodes, n) = MAX_OBJECTS_PER_NODE
                 /\ lastCall'.op \in {"insert", "update"}]_vars
    /\ [](OnlyInserts /\ aabbCount <= MAX_OBJECTS_PER_NODE =>
             /\ nodeCount = 1
             /\ getFirstChild(nodes, root) = -1
             /\ getObjects(nodes, root) = [k \in 1 .. aabbCount |-> k - 1])
    /\ [](OnlyInserts /\ aabbCount = MAX_OBJECTS_PER_NODE + 1 =>
             LET o == MAX_OBJECTS_PER_NODE
                 kept == StraddlersUpTo(aabbs, MAX_OBJECTS_PER_NODE)
             IN  /\ getFirstChild(nodes, root) = 1
                 /\ nodeCount >= 9
                 /\ \A c \in 1 .. 8 : getParent(nodes, c) = root
                 /\ IF RootOctantsContaining(aabbs[o]) = {}
                    THEN getObjects(nodes, root) =
                             IF Len(kept) < MAX_OBJECTS_PER_NODE THEN Append(kept, o)
                             ELSE kept
                    ELSE /\ getObjects(nodes, root) = kept
                         /\ nodeCount <= NodeCapacity =>
                                /\ StoredOnce(nodes, nodeCount, objectNodeMap, o)
                                /\ objectNodeMap[o] # root)

\* The ninth insert subdivided the root: the straddling boxes stayed in its list,
\* the new one among them, and the others went into a child.
NinthInsertSubdividedRoot ==
    /\ OnlyInserts
    /\ aabbCount = MAX_OBJECTS_PER_NODE + 1
    /\ lastCall.op = "insert"
    /\ lastCall.box = BoxS
    /\ getFirstChild(nodes, root) = 1
    /\ nodeCount = 9
    /\ MAX_OBJECTS_PER_NODE \in SeqToSet(getObjects(nodes, root))
    /\ getObjectCount(nodes, 1) > 0


\* ------------------------------------------------------------------- C34
\* The octant of the root under which node n lies, -1 if under none.
RootOctantOf(ns, n) ==
    LET first == getFirstChild(ns, root)
        over == {i \in 0 .. 7 : InSubtreeOf(ns, n, first + i)}
    IN  IF first = -1 \/ over = {} THEN -1 ELSE CHOOSE i \in over : TRUE

\* What C34 says of a step that inserts object o while the root is internal and
\* some octant of the root contains o's box: o is stored in the node that the
\* descent through the lowest-index containing child ends at, under the
\* lowest-index octant of the root that contains it, which on every axis where
\* the box ends at the midpoint is the lower half.
MidplaneEffect(o) ==
    LET box == aabbs'[o]
        fitting == RootOctantsContaining(box)
    IN  getFirstChild(nodes', root) # -1 /\ fitting # {} =>
            /\ StoredOnce(nodes', nodeCount', objectNodeMap', o)
            /\ objectNodeMap'[o] = DescentEnd(nodes', aabbs', root, o)
            /\ LET i == RootOctantOf(nodes', objectNodeMap'[o])
               IN  /\ i \in fitting
                   /\ \A j \in fitting : i <= j
                   /\ \A k \in 1 .. 3 :
                          box[k + 3] = Mid(WorldBounds[k], WorldBounds[k + 3])
                              => OctantBit(i, k - 1) = 0

\* C34: an object contained in more than one child octant of an internal node is
\* stored in the subtree of the lowest-index child that contains it; an object
\* whose max equals the midpoint on an axis goes to the lower octant on that axis.
MidplaneObjectGoesToLowestOctant == [][InsertStep => MidplaneEffect(lastCall'.obj)]_vars

\* C34 for the inserts that leave the node pool within its capacity.
MidplaneObjectGoesToLowestOctantWithinPool ==
    [][InsertStep /\ nodeCount' <= NodeCapacity => MidplaneEffect(lastCall'.obj)]_vars

\* A box in the plane x = 0 was inserted into the subdivided root and is held
\* under octant 6, although octant 7 contains it too.
FlatBoxUnderOctantSix ==
    /\ lastCall.op = "insert"
    /\ lastCall.box = BoxFlat
    /\ nodeCount = 9
    /\ RootOctantsContaining(BoxFlat) = {6, 7}
    /\ StoredOnce(nodes, nodeCount, objectNodeMap, lastCall.obj)
    /\ objectNodeMap[lastCall.obj] = 7


\* ------------------------------------------------------------------- C35
\* The origin of the ray lies in the box's slab on axis k, faces included.
InSlab(ray, box, k) == box[k] <= ray[k] /\ ray[k] <= box[k + 3]

\* The result when the axes in A alone constrain the ray: the entry distance
\* if it is not negative, else the exit distance, -1 if the ray misses or the
\* box lies behind the origin.
SlabResult(ray, box, A) ==
    LET lo(k) == IF ray[k + 3] > 0 THEN box[k] - ray[k] ELSE ray[k] - box[k + 3]
        hi(k) == IF ray[k + 3] > 0 THEN box[k + 3] - ray[k] ELSE ray[k] - box[k]
        tmin == IF A = {} THEN NegInf
                ELSE CHOOSE t \in {lo(k) : k \in A} : \A k \in A : lo(k) <= t
        tmax == IF A = {} THEN PosInf
                ELSE CHOOSE t \in {hi(k) : k \in A} : \A k \in A : t <= hi(k)
    IN  IF tmax < 0 \/ tmin > tmax THEN -1 ELSE IF tmin >= 0 THEN tmin ELSE tmax

\* C35: rayIntersectsAABB returns -1 or t >= 0 (tmin if tmin >= 0, else tmax);
\* an axis with a zero direction component imposes no constraint when the origin
\* is in the slab (min <= o <= max) and makes the result -1 when it is outside,
\* as in the branching slab implementation.
RayMatchesBranchingSlab ==
    probe.called =>
        LET ray == probe.ray
            box == probe.box
            parallel == {k \in 1 .. 3 : ray[k + 3] = 0}
        IN  /\ probe.t = -1 \/ probe.t >= 0
            /\ probe.t = rayIntersectsAABBBranching(ray, box)
            /\ IF \E k \in parallel : ~InSlab(ray, box, k) THEN probe.t = -1
               ELSE probe.t = SlabResult(ray, box, (1 .. 3) \ parallel)

\* The origin lies strictly inside the slab on axis k.
StrictlyInSlab(ray, box, k) == box[k] < ray[k] /\ ray[k] < box[k + 3]

\* C35 with the faces of the slab taken out: on an axis with a zero direction
\* component an origin strictly inside the slab imposes no constraint, and an
\* origin outside it or on one of its faces makes the result -1.
RayMatchesSlabsWithOpenParallelAxes ==
    probe.called =>
        LET ray == probe.ray
            box == probe.box
            parallel == {k \in 1 .. 3 : ray[k + 3] = 0}
        IN  /\ probe.t = -1 \/ probe.t >= 0
            /\ IF \E k \in parallel : ~StrictlyInSlab(ray, box, k) THEN probe.t = -1
               ELSE probe.t = SlabResult(ray, box, (1 .. 3) \ parallel)

\* ------------------------------------------------------------ C36
ReplyType(m) == IF m.type = "init" THEN "ready" ELSE "done"

\* The step takes the message at the head of the inbox.
Handles == Len(inbox') < Len(inbox)

\* The step posts exactly one reply, of the kind that answers message m, behind
\* the replies posted before.
PostsReplyTo(m) ==
    /\ Len(outbox') = Len(outbox) + 1
    /\ SubSeq(outbox', 1, Len(outbox)) = outbox
    /\ outbox'[Len(outbox')].type = ReplyType(m)

PostsNothing == Len(outbox') <= Len(outbox)

\* C36: every init message is eventually answered by exactly one ready and every
\* sweep message by exactly one done, in the order the messages were received,
\* and no reply is posted without a message.
EveryMessageAnsweredInOrder ==
    /\ [][/\ Handles => PostsReplyTo(Head(inbox))
          /\ ~Handles => PostsNothing]_vars
    /\ (inbox # << >>) ~> (inbox = << >>)

\* C36 as the binding behaves: every message is eventually handled; an init
\* message is answered by exactly one ready; a sweep message whose sweep call
\* returns is answered by exactly one done, behind the earlier replies; a sweep
\* message whose sweep call throws, as every sweep handled before an init does,
\* is answered by nothing; no other step posts a reply.
EveryReturningHandlerAnswersInOrder ==
    /\ [][/\ (Handles /\ Head(inbox).type = "init") => ~lastCall'.thrown
          /\ (Handles /\ ~lastCall'.thrown) => PostsReplyTo(Head(inbox))
          /\ (Handles /\ lastCall'.thrown) => UNCHANGED outbox
          /\ (Handles /\ Head(inbox).type = "sweep" /\ ~initialised) => UNCHANGED outbox
          /\ ~Handles => PostsNothing]_vars
    /\ (inbox # << >>) ~> (inbox = << >>)

\* An init and a later sweep have been handled and answered, in that order.
SweepAnsweredAfterInit ==
    /\ lastCall.op = "sweep"
    /\ ~lastCall.thrown
    /\ inbox = << >>
    /\ Len(outbox) = 2
    /\ outbox[1].type = "ready"
    /\ outbox[2].type = "done"

\* ------------------------------------------------------------ C37
\* The step is a call of insert(), of a new object or of a removed one.
InsertCallStep == lastCall'.op = "insert"

\* The insert of the step did not store its object: it raised, or returned with
\* the object not in the map.
InsertAborted == lastCall'.thrown \/ lastCall'.obj \notin DOMAIN objectNodeMap'

\* What C37 says of an insert of object o: every object that was in the map
\* before is afterwards listed once, by the node it maps to and by no other, and
\* an insert that did not store o leaves o out of the map and of every list.
InsertFrame(o) ==
    /\ \A x \in DOMAIN objectNodeMap :
          StoredOnce(nodes', nodeCount', objectNodeMap', x)
    /\ InsertAborted => NotStored(nodes', nodeCount', objectNodeMap', o)

\* C37: an insert call, whether it stores the new object, silently aborts it or
\* raises, leaves every previously live object listed in exactly one node and
\* mapped to that node, and an aborted insert leaves the new object absent from the
\* map and from every node.
InsertKeepsLiveObjects == [][InsertCallStep => InsertFrame(lastCall'.obj)]_vars

\* C37 for the inserts that leave the node pool within its capacity.
InsertKeepsLiveObjectsWithinPool ==
    [][(InsertCallStep /\ nodeCount' <= NodeCapacity) => InsertFrame(lastCall'.obj)]_vars

\* An insert has raised at a full internal root and the eight objects stored
\* before are still listed by the root.
InsertRaisedAndKeptTheOthers ==
    /\ lastCall.op = "insert"
    /\ lastCall.thrown
    /\ nodeCount <= NodeCapacity
    /\ Cardinality(DOMAIN objectNodeMap) = MAX_OBJECTS_PER_NODE
    /\ \A x \in DOMAIN objectNodeMap : StoredOnce(nodes, nodeCount, objectNodeMap, x)

\* An insert has been aborted silently after it subdivided the root.
InsertAbortedSilently ==
    /\ lastCall.op = "insert"
    /\ ~lastCall.thrown
    /\ lastCall.obj \notin DOMAIN objectNodeMap
    /\ nodeCount <= NodeCapacity
    /\ nodeCount > 1

\* ------------------------------------------------------------ C38
\* The step is a call of raycast or of queryBox.
QueryStep == lastCall'.op \in {"raycast", "queryBox"}

\* The step makes again the call made just before it: the same method with the
\* same argument, and no call in between.
RepeatsLastCall ==
    /\ QueryStep
    /\ lastCall.op = lastCall'.op
    /\ lastCall.box = lastCall'.box

\* A stack that an earlier call would have left had it not run to its end.
LeftoverStack == <<root, root>>

\* The step's call, had it found LeftoverStack on the stack and got past its early
\* return, would have returned what it returned and left the stack as it left it:
\* the call starts from [root] whatever the stack held.
StackEmptiedAtStart ==
    /\ (lastCall'.op = "raycast"
            /\ rayIntersectsAABB(lastCall'.box, getAABB(nodes, root)) >= 0) =>
          LET call == raycastCall(nodes, aabbs, LeftoverStack, lastCall'.box)
          IN  call.hit = queryResult'.hit /\ call.stack = octreeStack'
    /\ (lastCall'.op = "queryBox" /\ NodeOverlapsBox(nodes, root, lastCall'.box)) =>
          LET call == queryBoxCall(nodes, aabbs, LeftoverStack, lastCall'.box)
          IN  call.found = queryResult'.found /\ call.stack = octreeStack'

\* C38: raycast and queryBox leave the node pool's contents and size, the
\* object-to-node map and the AABB pool unchanged; a call past the early return
\* starts from a stack emptied of whatever it held, the stack is empty whenever a
\* call has returned, and a query made again right after itself returns what it
\* returned the first time.
QueriesAreReadOnly ==
    /\ [](octreeStack = << >>)
    /\ [][QueryStep => StackEmptiedAtStart]_vars
    /\ [][QueryStep => UNCHANGED <<nodes, nodeCount, objectNodeMap, aabbs, aabbCount>>]_vars
    /\ [][RepeatsLastCall =>
            /\ queryResult'.hit = queryResult.hit
            /\ queryResult'.found = queryResult.found]_vars

\* On a subdivided tree from which an object was removed and in which an update
\* moved a mapped object, a queryBox that found objects was made twice in a row,
\* and the stack is empty.
QueriesAnsweredOnSubdividedTree ==
    /\ lastCall.op = "queryBox"
    /\ queryResult.repeated
    /\ queryResult.found # << >>
    /\ getFirstChild(nodes, root) # -1
    /\ nodeCount <= NodeCapacity
    /\ nUpdates > 0
    /\ nRemoves > 0
    /\ octreeStack = << >>

\* A raycast that hit an object was made twice in a row on a subdivided tree.
RaycastRepeatedOnSubdividedTree ==
    /\ lastCall.op = "raycast"
    /\ queryResult.repeated
    /\ queryResult.hit # NoHit
    /\ getFirstChild(nodes, root) # -1
    /\ octreeStack = << >>

\* ------------------------------------------------------------ C39
\* Every hit the step's sweep wrote into the results buffer names an object
\* below n.
HitsBelow(n) ==
    \A r \in 1 .. LidarRayCount : resultsBuf'[r].index = -1 \/ resultsBuf'[r].index < n

\* C39: after sweep({objectCount: n}) returns, every hit objectIndex in the
\* results buffer is in [0, n); objects inserted by an earlier sweep with a larger
\* objectCount produce no hits.
SweepHitsOnlyActiveObjects == [][SweepDoneStep => HitsBelow(Head(inbox).n)]_vars

\* C39 for the sweeps whose objectCount is not below an earlier sweep's.
SweepHitsOnlyActiveObjectsWhenCountGrows ==
    [][(SweepDoneStep /\ Head(inbox).n >= insertedObjectCount)
           => HitsBelow(Head(inbox).n)]_vars

\* A sweep with objectCount 1 has hit object 0 after an earlier sweep.
SecondSweepHitActiveObject ==
    /\ lastCall.op = "sweep"
    /\ lastError = "none"
    /\ producer.sweeps = 2
    /\ inbox = << >>
    /\ lastCall.obj = 1
    /\ \E r \in 1 .. LidarRayCount : resultsBuf[r].index = 0

====
